---------------------------- MODULE Spec2Model ----------------------------
(***************************************************************************)
(* A model of diskdiff (directorydiffmerge): the FilesystemElement record  *)
(* and its one-line text codec, the record order, the block writer of      *)
(* FileLister, the DirectoryTree reader and the two-way compare.           *)
(*                                                                         *)
(* Text is modelled as it is in the program: a string is a sequence of     *)
(* byte values (ASCII codes), a std::filesystem::path is the byte string   *)
(* of its generic form, an istream is a string and a read position.        *)
(***************************************************************************)
EXTENDS Integers, Sequences, FiniteSets, TLC

VARIABLES
    pc,          \* position of the running operation
    elem,        \* codec: the FilesystemElement being written
    os,          \* the output stream (text written so far)
    decoded,     \* codec: result of FilesystemElement::readFrom
    fe,          \* order: the list of records of one directory, as enumerated
    sortedFe,    \* order: the list after fe.sort()
    disk,        \* the directory tree on disk below the source directory
    dirOrder,    \* the order in which directory_iterator yields the entries
    printBreak,  \* FileLister::printBreak
    unsupported, \* FileLister::unsupported
    flagBefore,  \* FileLister::unsupported when the most recent listFiles began
    input,       \* the snapshot stream or file given to DirectoryTree::readFrom
    inputName,   \* the name of that stream (diffFileName), empty if unknown
    tree,        \* the DirectoryTree read back or built from disk (tree a)
    diskB,       \* compare: the directory tree on disk below the target
    inputB,      \* compare: the snapshot file given as target
    treeB,       \* compare: the DirectoryTree of the target (tree b)
    diff,        \* compare: the DirectoryDiff<2> returned by compare2
    cmd,         \* main: the command line (operation and options given)
    fsFiles,     \* main: the files that exist when the program is invoked
    dest,        \* main: where the program wrote its result
    cerr,        \* main: the messages written to cerr
    exitStatus,  \* main: the value main returned (-1 while running)
    ndebug       \* the program was compiled with NDEBUG (assert is empty)

\* no program invoked
NoCommand ==
    [op |-> "none", out |-> FALSE, outName |-> <<>>, source |-> FALSE,
     sourceIs |-> "nothing", target |-> FALSE, targetIs |-> "nothing"]

codecVars == <<elem, decoded>>
orderVars == <<fe, sortedFe>>
listVars == <<disk, dirOrder, printBreak, unsupported, flagBefore, input, inputName,
              tree>>
diffVars == <<diskB, inputB, treeB, diff>>
mainVars == <<cmd, fsFiles, dest, cerr, exitStatus>>
vars == <<pc, os, elem, decoded, fe, sortedFe, disk, dirOrder, printBreak,
          unsupported, input, inputName, tree, diskB, inputB, treeB, diff, cmd,
          fsFiles, dest, cerr, exitStatus, flagBefore, ndebug>>

-----------------------------------------------------------------------------
(* Characters and small string helpers                                     *)

SP == 32
NL == 10
QUOTE == 34
BACKSLASH == 92
SLASH == 47
ZERO == 48

\* isspace() in the "C" locale: space, \t, \n, \v, \f, \r
IsSpace(c) == c \in {32, 9, 10, 11, 12, 13}

IsDigit(c) == c >= ZERO /\ c <= ZERO + 9

\* decimal rendering of an integer (operator<< on integers, to_string):
\* a '-' before the digits of a negative number
RECURSIVE Dec(_)
Dec(n) ==
    IF n < 0 THEN <<45>> \o Dec(0 - n)
    ELSE IF n < 10 THEN <<ZERO + n>>
    ELSE Dec(n \div 10) \o <<ZERO + (n % 10)>>

\* a number on two digits at least (strftime %m %d %H %M %S): a number
\* of one digit gets a '0' before it, any other is written as it is
Pad2(n) == IF n >= 0 /\ n <= 9 THEN <<ZERO, ZERO + n>> ELSE Dec(n)

\* std::quoted on output: the delimiter and the escape are escaped
RECURSIVE Escape(_)
Escape(s) ==
    IF s = <<>> THEN <<>>
    ELSE IF Head(s) \in {QUOTE, BACKSLASH}
         THEN <<BACKSLASH, Head(s)>> \o Escape(Tail(s))
         ELSE <<Head(s)>> \o Escape(Tail(s))

\* operator<< (ostream, path): os << std::quoted(p.string())
Quoted(s) == <<QUOTE>> \o Escape(s) \o <<QUOTE>>

\* the least number of a non-empty set
Least(S) == CHOOSE x \in S : \A y \in S : x <= y

\* first position >= i of s holding no whitespace (Len(s)+1 when none)
SkipWs(s, i) ==
    IF i > Len(s) THEN i
    ELSE CHOOSE k \in i..(Len(s) + 1) :
            /\ k > Len(s) \/ ~IsSpace(s[k])
            /\ \A j \in i..(k - 1) : IsSpace(s[j])

\* first position >= i of s holding whitespace (Len(s)+1 when none)
TokenEnd(s, i) ==
    IF i > Len(s) THEN i
    ELSE CHOOSE k \in i..(Len(s) + 1) :
            /\ k > Len(s) \/ IsSpace(s[k])
            /\ \A j \in i..(k - 1) : ~IsSpace(s[j])

\* operator>> (istream, string): skip whitespace, read up to whitespace;
\* fails when nothing is extracted
ReadToken(s, i) ==
    LET b == SkipWs(s, i)
        e == TokenEnd(s, b)
    IN  [ok |-> e > b, val |-> SubSeq(s, b, e - 1), pos |-> e]

\* body of a quoted string from position i: up to the closing delimiter,
\* a backslash taking the next character literally
RECURSIVE QuotedBody(_, _, _)
QuotedBody(s, i, acc) ==
    IF i > Len(s) THEN [ok |-> FALSE, val |-> acc, pos |-> i]
    ELSE IF s[i] = BACKSLASH
         THEN IF i + 1 > Len(s)
              THEN [ok |-> FALSE, val |-> acc, pos |-> i + 1]
              ELSE QuotedBody(s, i + 2, Append(acc, s[i + 1]))
         ELSE IF s[i] = QUOTE
              THEN [ok |-> TRUE, val |-> acc, pos |-> i + 1]
              ELSE QuotedBody(s, i + 1, Append(acc, s[i]))

\* operator>> (istream, path): is >> std::quoted(tmp); an unquoted word
\* is read as a plain token
ReadPath(s, i) ==
    LET b == SkipWs(s, i)
    IN  IF b > Len(s) THEN [ok |-> FALSE, val |-> <<>>, pos |-> b]
        ELSE IF s[b] # QUOTE THEN ReadToken(s, b)
        ELSE QuotedBody(s, b + 1, <<>>)

\* value of the digits s[i..j-1]
RECURSIVE DigitsValue(_, _, _, _)
DigitsValue(s, i, j, acc) ==
    IF i >= j THEN acc ELSE DigitsValue(s, i + 1, j, acc * 10 + (s[i] - ZERO))

\* first position >= i of s holding no digit
DigitsEnd(s, i) ==
    IF i > Len(s) THEN i
    ELSE CHOOSE k \in i..(Len(s) + 1) :
            /\ k > Len(s) \/ ~IsDigit(s[k])
            /\ \A j \in i..(k - 1) : IsDigit(s[j])

\* operator>> (istream, off_t): skip whitespace, optional sign, digits.
\* The model's lines hold sizes of at most 9 digits (no 64-bit overflow).
ReadInt(s, i) ==
    LET b == SkipWs(s, i)
        neg == b <= Len(s) /\ s[b] = 45
        d == IF b <= Len(s) /\ s[b] \in {43, 45} THEN b + 1 ELSE b
        e == DigitsEnd(s, d)
        v == DigitsValue(s, d, e, 0)
    IN  [ok |-> e > d, val |-> IF neg THEN 0 - v ELSE v, pos |-> e]

\* Not characters: each stands for the characters put_time wrote for one
\* field of a struct tm that was never written. READABLE is written where
\* the six fields of the struct happen to print as a time that readFrom
\* accepts, UNREADABLE where they print as anything else; every content
\* of the memory is of one of the two kinds.
READABLE == 256
UNREADABLE == 257

\* time_get::_M_extract_num (libstdc++): the digits from position i, at
\* most len of them, up to the first character that is no digit; it fails
\* when there is no digit or the value is outside lo..hi. The digits
\* READABLE stands for are those of a value inside lo..hi that is not
\* known (indet).
ExtractNum(s, i, lo, hi, len) ==
    IF i <= Len(s) /\ s[i] = READABLE
    THEN [ok |-> TRUE, val |-> lo, pos |-> i + 1, indet |-> TRUE]
    ELSE LET lim == IF i + len - 1 <= Len(s) THEN i + len - 1 ELSE Len(s)
             e == DigitsEnd(SubSeq(s, 1, lim), i)
             v == DigitsValue(s, i, e, 0)
         IN  [ok |-> e > i /\ v >= lo /\ v <= hi, val |-> v, pos |-> e,
              indet |-> FALSE]

-----------------------------------------------------------------------------
(* Calendar: gmtime_r and timegm                                           *)

SecondsPerDay == 86400

\* days since 1970-01-01 to the civil date (proleptic Gregorian)
CivilFromDays(days) ==
    LET z == days + 719468
        era == z \div 146097
        doe == z - era * 146097
        yoe == (doe - doe \div 1460 + doe \div 36524 - doe \div 146096) \div 365
        doy == doe - (365 * yoe + yoe \div 4 - yoe \div 100)
        mp == (5 * doy + 2) \div 153
        d == doy - (153 * mp + 2) \div 5 + 1
        m == IF mp < 10 THEN mp + 3 ELSE mp - 9
        y == yoe + era * 400 + (IF m <= 2 THEN 1 ELSE 0)
    IN  [year |-> y, mon |-> m, mday |-> d]

\* gmtime_r(&mt, &t): broken-down UTC time of a time_t
GmTime(mt) ==
    LET days == mt \div SecondsPerDay
        rem == mt % SecondsPerDay
        c == CivilFromDays(days)
    IN  [year |-> c.year, mon |-> c.mon, mday |-> c.mday,
         hour |-> rem \div 3600, min |-> (rem % 3600) \div 60, sec |-> rem % 60]

\* the civil date to days since 1970-01-01
DaysFromCivil(y0, m, d) ==
    LET y == IF m <= 2 THEN y0 - 1 ELSE y0
        era == y \div 400
        yoe == y - era * 400
        doy == (153 * (IF m > 2 THEN m - 3 ELSE m + 9) + 2) \div 5 + d - 1
        doe == yoe * 365 + yoe \div 4 - yoe \div 100 + doy
    IN  era * 146097 + doe - 719468

\* timegm(&t)
TimeGm(t) ==
    DaysFromCivil(t.year, t.mon, t.mday) * SecondsPerDay
        + t.hour * 3600 + t.min * 60 + t.sec

\* os << put_time(&t, "%F %T +0000"); mon is tm_mon + 1 and year is
\* tm_year + 1900
PutTime(t) ==
    Dec(t.year) \o <<45>> \o Pad2(t.mon) \o <<45>> \o Pad2(t.mday) \o <<SP>>
    \o Pad2(t.hour) \o <<58>> \o Pad2(t.min) \o <<58>> \o Pad2(t.sec)
    \o <<SP, 43, 48, 48, 48, 48>>

\* The format "%Y-%m-%d %T" as time_get::get walks it, %T being
\* "%H:%M:%S". A number is a field of struct tm with its range and width;
\* %d lets one blank stand before the digits; after %H and %M, which are
\* inside %T, the end of the input is a failure, after the others it ends
\* the conversion.
TimeFormat ==
    << [kind |-> "num", field |-> "year", lo |-> 0, hi |-> 9999, len |-> 4,
        blank |-> FALSE, inner |-> FALSE],
       [kind |-> "lit", ch |-> 45],
       [kind |-> "num", field |-> "mon", lo |-> 1, hi |-> 12, len |-> 2,
        blank |-> FALSE, inner |-> FALSE],
       [kind |-> "lit", ch |-> 45],
       [kind |-> "num", field |-> "mday", lo |-> 1, hi |-> 31, len |-> 2,
        blank |-> TRUE, inner |-> FALSE],
       [kind |-> "space"],
       [kind |-> "num", field |-> "hour", lo |-> 0, hi |-> 23, len |-> 2,
        blank |-> FALSE, inner |-> TRUE],
       [kind |-> "lit", ch |-> 58],
       [kind |-> "num", field |-> "min", lo |-> 0, hi |-> 59, len |-> 2,
        blank |-> FALSE, inner |-> TRUE],
       [kind |-> "lit", ch |-> 58],
       [kind |-> "num", field |-> "sec", lo |-> 0, hi |-> 60, len |-> 2,
        blank |-> FALSE, inner |-> FALSE] >>

\* one item of the format applied to the conversion c = [ok, eof, pos, tm,
\* set, indet]: ok is "failbit not set", eof "the input ended, the rest of
\* the format is given up", tm the struct tm with the fields converted so
\* far, set the fields written, indet whether a field written holds a
\* value that is not known
TimeItem(s, c, f) ==
    IF c.pos > Len(s) THEN [c EXCEPT !.ok = FALSE]
    ELSE IF f.kind = "space" THEN [c EXCEPT !.pos = SkipWs(s, c.pos)]
    ELSE IF f.kind = "lit"
         THEN IF s[c.pos] = f.ch THEN [c EXCEPT !.pos = c.pos + 1]
              ELSE [c EXCEPT !.ok = FALSE]
    ELSE LET b == IF f.blank /\ IsSpace(s[c.pos]) THEN c.pos + 1 ELSE c.pos
             n == ExtractNum(s, b, f.lo, f.hi, f.len)
         IN  IF ~n.ok THEN [c EXCEPT !.ok = FALSE]
             ELSE [ok |-> TRUE, eof |-> ~f.inner /\ n.pos > Len(s),
                   pos |-> n.pos, tm |-> [c.tm EXCEPT ![f.field] = n.val],
                   set |-> c.set \cup {f.field}, indet |-> c.indet \/ n.indet]

\* the items k.. of the format, until one fails or the input ends
RECURSIVE TimeItems(_, _, _)
TimeItems(s, c, k) ==
    IF k > Len(TimeFormat) \/ ~c.ok \/ c.eof THEN c
    ELSE TimeItems(s, TimeItem(s, c, TimeFormat[k]), k + 1)

\* the six fields of struct tm that put_time, get_time and timegm look at
TmFields == {"year", "mon", "mday", "hour", "min", "sec"}

\* in >> get_time(&t, "%Y-%m-%d %T") on a struct tm t that was never
\* written: the sentry skips whitespace and fails at the end of the input;
\* the fields converted before a failure or the end of the input are
\* written (set), the others keep what the memory of t held, which is
\* anything
GetTime(s, i) ==
    LET b == SkipWs(s, i)
    IN  TimeItems(s, [ok |-> b <= Len(s), eof |-> FALSE, pos |-> b,
                      tm |-> [f \in TmFields |-> 0], set |-> {},
                      indet |-> FALSE], 1)

\* Not a time: stands for the value of a time_t that is not known, what
\* timegm returns for a struct tm with a field that was never written or
\* that was read from the digits READABLE stands for
IndeterminateTime == 0 - 2147483647

\* mt = timegm(&t) after get_time
TimeRead(g) ==
    IF g.set = TmFields /\ ~g.indet THEN TimeGm(g.tm) ELSE IndeterminateTime

-----------------------------------------------------------------------------
(* class FilesystemElement                                                 *)

PermLen == 10
HashLen == 40
TzLen == 6
PermsUnknown == 65535

\* FilesystemElement::FilesystemElement(): the fields before any read
DefaultElement ==
    [ty |-> "unknown", per |-> PermsUnknown, us |-> <<>>, gs |-> <<>>,
     mt |-> 0, sz |-> 0, fileHash |-> <<>>, rp |-> <<>>, symlink |-> <<>>,
     hardLinkCnt |-> 1]

isDirectory(e) == e.ty = "directory"

\* a digest that does not depend on the content
hashFileOfNothing(content) == [i \in 1..HashLen |-> ZERO]

\* hashFile: the 40 hexadecimal digits of a content (contents are numbered;
\* distinct contents have distinct digests)
hashFile(content) == [i \in 1..HashLen |-> IF i % 2 = 1 THEN 65 + content ELSE ZERO + content]

\* the type character written by writeTo
TypeChar(ty) ==
    CASE ty = "regular" -> 45
      [] ty = "directory" -> 100
      [] ty = "symlink" -> 108
      [] OTHER -> 63

\* bit b (a power of two) of the permission word
HasBit(pe, b) == (pe \div b) % 2 = 1

\* the nine permission characters written by writeTo
PermChars(pe) ==
    << IF HasBit(pe, 256) THEN 114 ELSE 45,
       IF HasBit(pe, 128) THEN 119 ELSE 45,
       IF HasBit(pe, 64) THEN 120 ELSE 45,
       IF HasBit(pe, 32) THEN 114 ELSE 45,
       IF HasBit(pe, 16) THEN 119 ELSE 45,
       IF HasBit(pe, 8) THEN 120 ELSE 45,
       IF HasBit(pe, 4) THEN 114 ELSE 45,
       IF HasBit(pe, 2) THEN 119 ELSE 45,
       IF HasBit(pe, 1) THEN 120 ELSE 45 >>

\* What the memory of the struct tm of writeTo holds when nothing was
\* written to it: any six integers. They are of one of two kinds, by what
\* readFrom does with the text put_time prints for them: "readable" are
\* the contents that print as a time readFrom accepts (2001-09-09
\* 01:46:40, also 2000-02-31 06:07:05), "unreadable" all others (an hour
\* of 24, a month of 978222273, a negative field, a seventh digit, the
\* time 1969-12-31 23:59:59).
StackTm == {"readable", "unreadable"}

\* os << put_time(&t, "%F %T +0000") for a struct tm t that was never
\* written and holds t0: the characters of the format are written as they
\* are, and the fields as what the memory holds
PutGarbage(t0) ==
    LET c == IF t0 = "readable" THEN READABLE ELSE UNREADABLE
    IN  <<c, 45, c, 45, c, SP, c, 58, c, 58, c, SP, 43, 48, 48, 48, 48>>

\* struct tm t; assert(gmtime_r(&mt,&t)==&t); os<<put_time(&t,...): with
\* NDEBUG the assert and the call in it are compiled away and t keeps what
\* its memory held (t0)
TimeWritten(mt, nd, t0) == IF nd THEN PutGarbage(t0) ELSE PutTime(GmTime(mt))

\* one content for the struct tm of each of n calls
AnyStack(n) == [i \in 1..n |-> CHOOSE t0 \in StackTm : TRUE]

\* what the struct tm of each of n calls of writeTo in turn may hold, every
\* call having its own: any contents where that shows (with NDEBUG);
\* without NDEBUG gmtime_r overwrites it before it is looked at, and one
\* content stands for all
Stacks(n, shows) == IF shows THEN [1..n -> StackTm] ELSE { AnyStack(n) }

\* FilesystemElement::writeTo: the line of a record, with its final '\n',
\* in a build with NDEBUG (nd) or without
writeTo(e, nd, t0) ==
    <<TypeChar(e.ty)>> \o PermChars(e.per)
    \o <<SP>> \o e.us \o <<SP>> \o e.gs \o <<SP>>
    \o TimeWritten(e.mt, nd, t0) \o <<SP>>
    \o (CASE e.ty = "regular" -> Dec(e.sz) \o <<SP>> \o e.fileHash \o <<SP>>
          [] e.ty = "symlink" -> Quoted(e.symlink) \o <<SP>>
          [] OTHER -> <<>>)
    \o Quoted(e.rp) \o <<NL>>

\* the fail lambda without its line number
FailMessageWithoutLine(m, diffLine, diffFileName, lineNo) ==
    (IF diffFileName # <<>> THEN diffFileName \o <<58, 32>> ELSE <<>>)
    \o m
    \o <<44,32,119,114,111,110,103,32,108,105,110,101,32,105,115,32,39>>
    \o diffLine \o <<39>>

\* the fail lambda of readFrom: the text of the runtime_error thrown
FailMessage(m, diffLine, diffFileName, lineNo) ==
    (IF diffFileName # <<>> THEN diffFileName \o <<58, 32>> ELSE <<>>)
    \o m
    \o (IF lineNo > 0 THEN <<32,97,116,32,108,105,110,101>> \o Dec(lineNo)
        ELSE <<>>)
    \o <<44,32,119,114,111,110,103,32,108,105,110,101,32,105,115,32,39>>
    \o diffLine \o <<39>>

\* the reasons given to fail
ErrPermString == <<69,114,114,111,114,32,114,101,97,100,105,110,103,32,112,101,114,109,105,115,115,105,111,110,32,115,116,114,105,110,103>>
ErrFileType == <<85,110,114,101,99,111,103,110,105,122,101,100,32,102,105,108,101,32,116,121,112,101>>
ErrPerms == <<80,101,114,109,105,115,115,105,111,110,115,32,110,111,116,32,99,111,114,114,101,99,116>>
ErrUserGroup == <<69,114,114,111,114,32,114,101,97,100,105,110,103,32,117,115,101,114,47,103,114,111,117,112>>
ErrMtime == <<69,114,114,111,114,32,114,101,97,100,105,110,103,32,109,116,105,109,101>>
ErrSize == <<69,114,114,111,114,32,114,101,97,100,105,110,103,32,115,105,122,101>>
ErrHash == <<69,114,114,111,114,32,114,101,97,100,105,110,103,32,104,97,115,104>>
ErrSymlink == <<69,114,114,111,114,32,114,101,97,100,105,110,103,32,115,121,109,108,105,110,107,32,116,97,114,103,101,116>>
ErrPath == <<69,114,114,111,114,32,114,101,97,100,105,110,103,32,112,97,116,104>>
ErrExtra == <<69,120,116,114,97,32,99,104,97,114,97,99,116,101,114,115,32,97,116,32,101,110,100,32,111,102,32,108,105,110,101>>

\* the type named by the first character of the permission string
TypeOfChar(c) ==
    CASE c = 45 -> "regular"
      [] c = 100 -> "directory"
      [] c = 108 -> "symlink"
      [] c = 63 -> "unknown"
      [] OTHER -> "none"

\* the permission word of the nine characters p[2..10]; -1 when a character
\* is neither its letter nor '-'
PermBits(p) ==
    LET letter(k) == CASE k % 3 = 2 -> 114 [] k % 3 = 0 -> 119 [] OTHER -> 120
        weight(k) == CASE k = 2 -> 256 [] k = 3 -> 128 [] k = 4 -> 64
                       [] k = 5 -> 32 [] k = 6 -> 16 [] k = 7 -> 8
                       [] k = 8 -> 4 [] k = 9 -> 2 [] OTHER -> 1
        RECURSIVE sum(_)
        sum(k) == IF k > 10 THEN 0
                  ELSE (IF p[k] = letter(k) THEN weight(k) ELSE 0) + sum(k + 1)
    IN  IF \A k \in 2..10 : p[k] \in {letter(k), 45} THEN sum(2) ELSE 0 - 1

\* what readFrom gives: the exception thrown by fail(m), with the element
\* as the assignments before the throw left it ...
Thrown(e, m, diffLine, diffFileName, lineNo) ==
    [ok |-> FALSE, elem |-> e,
     what |-> FailMessage(m, diffLine, diffFileName, lineNo)]

\* ... or the element read
Read(e) == [ok |-> TRUE, elem |-> e, what |-> <<>>]

\* readFrom, lines 144-148: the path, the end of the line, the defaults;
\* operator>> assigns the path only when the read succeeds
ReadRelativePath(s, name, no, e, i) ==
    LET path == ReadPath(s, i)
    IN  IF ~path.ok THEN Thrown(e, ErrPath, s, name, no)
        ELSE IF path.pos <= Len(s)
        THEN Thrown([e EXCEPT !.rp = path.val], ErrExtra, s, name, no)
        ELSE Read([e EXCEPT !.rp = path.val, !.hardLinkCnt = 1])

\* in >> sz: the value read; 0 when the characters are no number; sz as it
\* was when the line has ended
SizeRead(s, e, i, size) ==
    IF size.ok THEN size.val
    ELSE IF SkipWs(s, i) > Len(s) THEN e.sz
    ELSE 0

\* readFrom, lines 133-137: the size and the hash of a regular file
ReadSizeAndHash(s, name, no, e, i) ==
    LET size == ReadInt(s, i)
        hash == ReadToken(s, size.pos)
        e1 == [e EXCEPT !.sz = SizeRead(s, e, i, size)]
        e2 == [e1 EXCEPT !.fileHash = IF hash.ok THEN hash.val ELSE @]
    IN  IF ~size.ok THEN Thrown(e1, ErrSize, s, name, no)
        ELSE IF ~hash.ok \/ Len(hash.val) # HashLen THEN Thrown(e2, ErrHash, s, name, no)
        ELSE ReadRelativePath(s, name, no, e2, hash.pos)

\* readFrom, lines 139-142: the target of a symlink
ReadSymlink(s, name, no, e, i) ==
    LET link == ReadPath(s, i)
    IN  IF ~link.ok THEN Thrown(e, ErrSymlink, s, name, no)
        ELSE ReadRelativePath(s, name, no, [e EXCEPT !.symlink = link.val], link.pos)

\* readFrom, lines 131-143: the fields that depend on the type; the fields
\* of the other types are left as they were
ReadTypeFields(s, name, no, e, i) ==
    CASE e.ty = "regular" -> ReadSizeAndHash(s, name, no, e, i)
      [] e.ty = "symlink" -> ReadSymlink(s, name, no, e, i)
      [] OTHER -> ReadRelativePath(s, name, no, e, i)

\* the six characters in.read(tz.data(), 6) takes from position i are
\* " +0000"
ZoneIsUtc(s, i) ==
    /\ i + TzLen - 1 <= Len(s)
    /\ SubSeq(s, i, i + TzLen - 1) = <<32, 43, 48, 48, 48, 48>>

\* readFrom, lines 123-130: the modification time and its zone. struct tm t
\* is not initialized; mt = timegm(&t) is assigned before the stream is
\* looked at.
ReadMtime(s, name, no, e, i) ==
    LET g == GetTime(s, i)
        e1 == [e EXCEPT !.mt = TimeRead(g)]
    IN  IF ~g.ok \/ e1.mt = 0 - 1 THEN Thrown(e1, ErrMtime, s, name, no)
        ELSE IF ~ZoneIsUtc(s, g.pos) THEN Thrown(e1, ErrMtime, s, name, no)
        ELSE ReadTypeFields(s, name, no, e1, g.pos + TzLen)

\* readFrom, lines 114-115: the user and the group; operator>> leaves a
\* string as it was when there is nothing to read
ReadUserGroup(s, name, no, e, i) ==
    LET usr == ReadToken(s, i)
        grp == ReadToken(s, usr.pos)
        e1 == [e EXCEPT !.us = IF usr.ok THEN usr.val ELSE @,
                        !.gs = IF usr.ok /\ grp.ok THEN grp.val ELSE @]
    IN  IF ~usr.ok \/ ~grp.ok THEN Thrown(e1, ErrUserGroup, s, name, no)
        ELSE ReadMtime(s, name, no, e1, grp.pos)

\* FilesystemElement::readFrom called on the element e: the element read,
\* or the message of the exception thrown at the first check that fails
\* and the element as it is then
readFrom(e, diffLine, diffFileName, lineNo) ==
    LET perm == ReadToken(diffLine, 1)
    IN  IF ~perm.ok \/ Len(perm.val) # PermLen
        THEN Thrown(e, ErrPermString, diffLine, diffFileName, lineNo)
        ELSE IF TypeOfChar(perm.val[1]) = "none"
        THEN Thrown(e, ErrFileType, diffLine, diffFileName, lineNo)
        ELSE IF PermBits(perm.val) < 0
        THEN Thrown([e EXCEPT !.ty = TypeOfChar(perm.val[1])],
                    ErrPerms, diffLine, diffFileName, lineNo)
        ELSE ReadUserGroup(diffLine, diffFileName, lineNo,
                           [e EXCEPT !.ty = TypeOfChar(perm.val[1]),
                                     !.per = PermBits(perm.val)],
                           perm.pos)

\* FilesystemElement::FilesystemElement(diffLine, diffFileName, lineNo):
\* readFrom on an element whose members have their initial values
ElementFromLine(diffLine, diffFileName, lineNo) ==
    readFrom(DefaultElement, diffLine, diffFileName, lineNo)

-----------------------------------------------------------------------------
(* operator< and list::sort                                                *)

\* first position >= i of s holding no '/' (Len(s)+1 when none)
SkipSlashes(s, i) ==
    IF i > Len(s) THEN i
    ELSE CHOOSE k \in i..(Len(s) + 1) :
            /\ k > Len(s) \/ s[k] # SLASH
            /\ \A j \in i..(k - 1) : s[j] = SLASH

\* first position >= i of s holding a '/' (Len(s)+1 when none)
NameEnd(s, i) ==
    IF i > Len(s) THEN i
    ELSE CHOOSE k \in i..(Len(s) + 1) :
            /\ k > Len(s) \/ s[k] = SLASH
            /\ \A j \in i..(k - 1) : s[j] # SLASH

\* path::has_root_directory (POSIX, no root name): the text starts with '/'
HasRootDirectory(s) == s # <<>> /\ s[1] = SLASH

\* the file names from position i of the text, as iterating the path gives
\* them: a run of '/' separates two names, and a path that ends with '/'
\* ends with an empty name
RECURSIVE NamesFrom(_, _)
NamesFrom(s, i) ==
    IF i > Len(s) THEN <<>>
    ELSE LET e == NameEnd(s, i)
             n == SkipSlashes(s, e)
         IN  IF e > Len(s) THEN <<SubSeq(s, i, e - 1)>>
             ELSE IF n > Len(s) THEN <<SubSeq(s, i, e - 1), <<>>>>
             ELSE <<SubSeq(s, i, e - 1)>> \o NamesFrom(s, n)

\* the file names of a path, after its root directory if it has one
Components(s) == NamesFrom(s, SkipSlashes(s, 1))

\* std::string compare: bytewise, a proper prefix first
RECURSIVE StringLess(_, _)
StringLess(a, b) ==
    IF b = <<>> THEN FALSE
    ELSE IF a = <<>> THEN TRUE
    ELSE IF Head(a) # Head(b) THEN Head(a) < Head(b)
    ELSE StringLess(Tail(a), Tail(b))

\* lexicographic order of two lists of file names
RECURSIVE NamesLess(_, _)
NamesLess(a, b) ==
    IF b = <<>> THEN FALSE
    ELSE IF a = <<>> THEN TRUE
    ELSE IF Head(a) # Head(b) THEN StringLess(Head(a), Head(b))
    ELSE NamesLess(Tail(a), Tail(b))

\* operator< of std::filesystem::path: path::compare. A path without a
\* root directory comes before one that has it; then the file names are
\* compared one by one.
PathLess(p, q) ==
    IF HasRootDirectory(p) # HasRootDirectory(q) THEN HasRootDirectory(q)
    ELSE NamesLess(Components(p), Components(q))

\* operator< comparing the paths alone
LessByPathOnly(a, b) == PathLess(a.rp, b.rp)

\* operator< (FilesystemElement, FilesystemElement)
Less(a, b) ==
    IF isDirectory(a) = isDirectory(b) THEN PathLess(a.rp, b.rp)
    ELSE isDirectory(a) /\ ~isDirectory(b)

\* e put into the sorted list l after every element it is not less than
RECURSIVE InsertSorted(_, _)
InsertSorted(e, l) ==
    IF l = <<>> THEN <<e>>
    ELSE IF Less(e, Head(l)) THEN <<e>> \o l
    ELSE <<Head(l)>> \o InsertSorted(e, Tail(l))

\* a list left in the order it was filled
Unsorted(l) == l

\* std::list::sort(): a stable sort by operator<
RECURSIVE Sort(_)
Sort(l) == IF l = <<>> THEN <<>>
           ELSE InsertSorted(l[Len(l)], Sort(SubSeq(l, 1, Len(l) - 1)))

-----------------------------------------------------------------------------
(* The directory tree on disk and FilesystemElement(p, top)                *)

\* The disk is a set of entries [path, st]: path is the path relative to
\* the top directory, st what ext_symlink_status reports for it (with the
\* content of a regular file as a number and the target of a symlink).

\* the directory a path lies in: the text before its last '/'
RECURSIVE ParentPath(_)
ParentPath(r) ==
    IF r = <<>> THEN <<>>
    ELSE IF r[Len(r)] = SLASH THEN SubSeq(r, 1, Len(r) - 1)
    ELSE ParentPath(SubSeq(r, 1, Len(r) - 1))

\* the entries of directory p
ChildrenOf(d, p) == { e \in d : ParentPath(e.path) = p }

\* the entries of the set c in ascending order of their path text
RECURSIVE Ascending(_)
Ascending(c) ==
    IF c = {} THEN <<>>
    ELSE LET m == CHOOSE e \in c : \A o \in c : o = e \/ StringLess(e.path, o.path)
         IN  <<m>> \o Ascending(c \ {m})

\* the list l without its k-th element
Without(l, k) == SubSeq(l, 1, k - 1) \o SubSeq(l, k + 1, Len(l))

\* The list l in the order that ord names. An order is a list of numbers:
\* of n entries left to yield, the one at place ord[n] (counted from 0,
\* modulo n) comes next; a number that is missing counts as 0. Every
\* permutation of a list is named by an order.
RECURSIVE Permuted(_, _)
Permuted(l, ord) ==
    IF l = <<>> THEN <<>>
    ELSE LET n == Len(l)
             k == (IF n <= Len(ord) THEN ord[n] % n ELSE 0) + 1
         IN  <<l[k]>> \o Permuted(Without(l, k), ord)

\* the order that yields the entries by ascending name, and the one that
\* yields them by descending name (up to three entries)
AscendingOrder == <<>>
DescendingOrder == <<0, 1, 2>>

\* directory_iterator(p): the entries of p in an order the file system
\* chooses
DirectoryIterator(d, ord, p) == Permuted(Ascending(ChildrenOf(d, p)), ord)

\* FilesystemElement::FilesystemElement(p, top)
ElementFromDisk(e) ==
    LET known == e.st.ty \in {"regular", "directory", "symlink"}
    IN  [ty |-> IF known THEN e.st.ty ELSE "unknown",
         per |-> e.st.per, us |-> e.st.us, gs |-> e.st.gs, mt |-> e.st.mt,
         sz |-> IF e.st.ty = "regular" THEN e.st.size ELSE 0,
         fileHash |-> IF e.st.ty = "regular" THEN hashFile(e.st.content) ELSE <<>>,
         rp |-> e.path,
         symlink |-> IF e.st.ty = "symlink" THEN e.st.target ELSE <<>>,
         hardLinkCnt |-> e.st.nlink]

\* the list fe of recursiveListFiles(p), sorted
SortedElements(d, ord, p) ==
    LET it == DirectoryIterator(d, ord, p)
    IN  Sort([i \in 1..Len(it) |-> ElementFromDisk(it[i])])

-----------------------------------------------------------------------------
(* class FileLister                                                        *)

\* a record needs a warning: unknown type, or not a directory and linked
\* more than once
Unsupported(e) ==
    \/ e.ty = "unknown"
    \/ (e.ty # "directory" /\ e.hardLinkCnt # 1)

\* "Warning: "
WarningPrefix == <<87,97,114,110,105,110,103,58,32>>

\* " has unsupported file type\n"
UnsupportedTypeText ==
    <<32,104,97,115,32,117,110,115,117,112,112,111,114,116,101,100,32,102,105,
      108,101,32,116,121,112,101,10>>

\* " has multiple hardlinks ("
MultipleHardlinksText ==
    <<32,104,97,115,32,109,117,108,116,105,112,108,101,32,104,97,114,100,108,
      105,110,107,115,32,40>>

\* what recursiveListFiles writes to cerr for the record e: a line for an
\* unknown type, then a line for a non-directory with a link count other
\* than 1
Warnings(e) ==
    (IF e.ty = "unknown"
     THEN WarningPrefix \o Quoted(e.rp) \o UnsupportedTypeText ELSE <<>>)
    \o (IF e.ty # "directory" /\ e.hardLinkCnt # 1
        THEN WarningPrefix \o Quoted(e.rp) \o MultipleHardlinksText
             \o Dec(e.hardLinkCnt) \o <<41, NL>>
        ELSE <<>>)

\* the first loop of recursiveListFiles: every record written, its
\* warnings printed, the flag set; every call of writeTo has its own
\* struct tm, holding the next element of L.stack before it is filled
RECURSIVE WriteElements(_, _, _, _)
WriteElements(L, l, i, nd) ==
    IF i > Len(l) THEN L
    ELSE WriteElements([L EXCEPT !.os = @ \o writeTo(l[i], nd, Head(L.stack)),
                                 !.stack = Tail(@),
                                 !.cerr = @ \o Warnings(l[i]),
                                 !.unsupported = @ \/ Unsupported(l[i])],
                       l, i + 1, nd)

RECURSIVE recursiveListFiles(_, _, _, _, _)
RECURSIVE ListDirectories(_, _, _, _, _, _)

\* FileLister::recursiveListFiles(p) on the lister state L = [os, cerr,
\* printBreak, unsupported, stack], in a build with NDEBUG (nd) or
\* without; stack is what the struct tm of the calls of writeTo to come
\* hold, one element a call
recursiveListFiles(L, d, ord, p, nd) ==
    LET L1 == IF L.printBreak THEN [L EXCEPT !.os = @ \o <<NL>>] ELSE L
        l == SortedElements(d, ord, p)
        L2 == WriteElements(L1, l, 1, nd)
        L3 == [L2 EXCEPT !.printBreak = (l # <<>>)]
    IN  ListDirectories(L3, d, ord, l, 1, nd)

\* the second loop of recursiveListFiles: the directories listed in turn
ListDirectories(L, d, ord, l, i, nd) ==
    IF i > Len(l) THEN L
    ELSE IF isDirectory(l[i])
         THEN ListDirectories(recursiveListFiles(L, d, ord, l[i].rp, nd),
                              d, ord, l, i + 1, nd)
         ELSE ListDirectories(L, d, ord, l, i + 1, nd)

\* a listing that begins with the flag as the listing before left it
listFilesKeepingFlag(L, d, ord, nd) ==
    recursiveListFiles([L EXCEPT !.printBreak = FALSE], d, ord, <<>>, nd)

\* FileLister::listFiles(top), top a directory
listFiles(L, d, ord, nd) ==
    recursiveListFiles([L EXCEPT !.printBreak = FALSE, !.unsupported = FALSE],
                       d, ord, <<>>, nd)

-----------------------------------------------------------------------------
(* class DirectoryTree                                                     *)

\* A tree is the list of its nodes [elem, parent] in the order they were
\* installed; parent is the position of the directory node holding the
\* node, 0 at the top level.  The content of a directory is the list of
\* the nodes it holds, in that order.

NoTree == [ok |-> FALSE, nodes |-> <<>>, what |-> <<>>]

\* operator== of two records: every written field; the hard-link count is
\* not compared
ElementEq(a, b) ==
    /\ a.ty = b.ty /\ a.per = b.per /\ a.us = b.us /\ a.gs = b.gs
    /\ a.mt = b.mt /\ a.sz = b.sz /\ a.fileHash = b.fileHash
    /\ a.rp = b.rp /\ a.symlink = b.symlink

\* the positions in nodes of the content of the node at position n
RECURSIVE ContentFrom(_, _, _)
ContentFrom(nodes, n, i) ==
    IF i > Len(nodes) THEN <<>>
    ELSE IF nodes[i].parent = n THEN <<i>> \o ContentFrom(nodes, n, i + 1)
    ELSE ContentFrom(nodes, n, i + 1)

Content(nodes, n) == ContentFrom(nodes, n, 1)

\* the lines of the text s from position i, as successive getline calls
\* return them: each up to the next '\n', the last up to the end
RECURSIVE LinesFrom(_, _)
LinesFrom(s, i) ==
    IF i > Len(s) THEN <<>>
    ELSE LET e == CHOOSE k \in i..(Len(s) + 1) :
                     /\ k > Len(s) \/ s[k] = NL
                     /\ \A j \in i..(k - 1) : s[j] # NL
         IN  <<SubSeq(s, i, e - 1)>> \o LinesFrom(s, e + 1)

Lines(s) == LinesFrom(s, 1)

\* the positions among new of the directory nodes
RECURSIVE DirectoryPositions(_, _, _)
DirectoryPositions(nodes, from, to) ==
    IF from > to THEN <<>>
    ELSE IF isDirectory(nodes[from].elem)
         THEN <<from>> \o DirectoryPositions(nodes, from + 1, to)
         ELSE DirectoryPositions(nodes, from + 1, to)

\* The state of a read is R = [nodes, queue, cur, first]: the nodes
\* installed, the directories waiting for their block in the order of the
\* pre-order walk (0 is the top directory), the directory the block being
\* read belongs to (-1 between blocks) and the position of the first node
\* of that block.

\* the end of a block: its directories wait for their blocks, before the
\* directories already waiting
CloseBlock(R) ==
    IF R.cur = 0 - 1 THEN R
    ELSE [R EXCEPT !.cur = 0 - 1,
                   !.queue = DirectoryPositions(R.nodes, R.first, Len(R.nodes)) \o @]

\* the first line of a block: the block belongs to the directory waiting
\* first
OpenBlock(R) ==
    IF R.cur # 0 - 1 THEN R
    ELSE [R EXCEPT !.cur = Head(R.queue), !.queue = Tail(R.queue),
                   !.first = Len(R.nodes) + 1]

\* a record line of the block of directory R.cur
AddNode(R, e) == [R EXCEPT !.nodes = Append(@, [elem |-> e, parent |-> R.cur])]

RECURSIVE ReadLines(_, _, _, _)

\* a record line: the exception of a line that does not parse ends the
\* read where it is, with the records of the lines before
ReadRecordLine(R, ls, k, name, r) ==
    IF ~r.ok THEN [ok |-> FALSE, nodes |-> R.nodes, what |-> r.what]
    ELSE ReadLines(AddNode(OpenBlock(R), r.elem), ls, k + 1, name)

\* DirectoryTree::readFrom(is, diffFileName), line k onwards
ReadLines(R, ls, k, name) ==
    IF k > Len(ls) THEN [ok |-> TRUE, nodes |-> R.nodes, what |-> <<>>]
    ELSE IF ls[k] = <<>> THEN ReadLines(CloseBlock(R), ls, k + 1, name)
    ELSE IF R.cur = 0 - 1 /\ R.queue = <<>>
         THEN [ok |-> FALSE, nodes |-> R.nodes, what |-> <<>>]
    ELSE ReadRecordLine(R, ls, k, name, ElementFromLine(ls[k], name, k))

\* DirectoryTree::readFrom(is, diffFileName): the read done, or the
\* exception that ended it and the records stored until then
ReadTree(text, name) ==
    ReadLines([nodes |-> <<>>, queue |-> <<0>>, cur |-> 0 - 1, first |-> 1],
              Lines(text), 1, name)

\* DirectoryTree::DirectoryTree(is, diffFileName) { readFrom(is,
\* diffFileName); }: the tree read; an exception that leaves readFrom
\* leaves the constructor, and there is no tree, whatever readFrom had
\* stored
DirectoryTreeFromStream(text, name) ==
    LET r == ReadTree(text, name)
    IN  IF r.ok THEN r ELSE [ok |-> FALSE, nodes |-> <<>>, what |-> r.what]

RECURSIVE recursiveBuildFromPath(_, _, _, _, _)
RECURSIVE BuildDirectories(_, _, _, _, _)

\* DirectoryTree::recursiveBuildFromPath(p): the sorted records of p
\* installed as the content of node n, then every directory among them
\* built in turn
recursiveBuildFromPath(nodes, d, ord, p, n) ==
    LET l == SortedElements(d, ord, p)
        first == Len(nodes) + 1
        added == nodes \o [i \in 1..Len(l) |-> [elem |-> l[i], parent |-> n]]
    IN  BuildDirectories(added, d, ord, first, Len(added))

BuildDirectories(nodes, d, ord, from, to) ==
    IF from > to THEN nodes
    ELSE IF isDirectory(nodes[from].elem)
         THEN BuildDirectories(
                  recursiveBuildFromPath(nodes, d, ord, nodes[from].elem.rp, from),
                  d, ord, from + 1, to)
         ELSE BuildDirectories(nodes, d, ord, from + 1, to)

\* DirectoryTree::scanDirectory(topPath)
scanDirectory(d, ord) ==
    [ok |-> TRUE, what |-> <<>>,
     nodes |-> recursiveBuildFromPath(<<>>, d, ord, <<>>, 0)]

\* the pre-order walk of the content of node n: every record with the
\* path of the directory it is attached to
RECURSIVE PreOrderOf(_, _)
RECURSIVE PreOrderList(_, _, _)
PreOrderOf(nodes, n) == PreOrderList(nodes, Content(nodes, n), 1)

PreOrderList(nodes, c, i) ==
    IF i > Len(c) THEN <<>>
    ELSE <<[elem |-> nodes[c[i]].elem,
            under |-> IF nodes[c[i]].parent = 0 THEN <<>>
                      ELSE nodes[nodes[c[i]].parent].elem.rp]>>
         \o PreOrderOf(nodes, c[i])
         \o PreOrderList(nodes, c, i + 1)

PreOrder(t) == PreOrderOf(t.nodes, 0)

-----------------------------------------------------------------------------
(* compare2: the two-way diff of two trees                                 *)

\* A DirectoryDiff<2> is a list of rows; a row is a pair of slots, a slot
\* (std::optional<FilesystemElement>) the empty list or a list of one
\* record.

\* the row of a record found in tree a only (side 1) or tree b only (side 2)
OneSided(side, e) == IF side = 1 THEN << <<e>>, <<>> >> ELSE << <<>>, <<e>> >>

\* a path found in both trees: a row unless the two records are equal
SamePathRows(a, b) == IF ElementEq(a, b) THEN <<>> ELSE << << <<a>>, <<b>> >> >>

\* every node of the list c of one tree reported as found in that tree
\* only, a directory followed by everything below it
RECURSIVE ExpandList(_, _, _, _)
ExpandList(nodes, c, i, side) ==
    IF i > Len(c) THEN <<>>
    ELSE <<OneSided(side, nodes[c[i]].elem)>>
         \o ExpandList(nodes, Content(nodes, c[i]), 1, side)
         \o ExpandList(nodes, c, i + 1, side)

\* the sorted merge of two sibling lists: ca and cb are the positions of
\* the siblings in the node lists A and B, i and j the two cursors
RECURSIVE Merge(_, _, _, _, _, _)
Merge(A, B, ca, cb, i, j) ==
    IF i > Len(ca) /\ j > Len(cb) THEN <<>>
    ELSE IF j > Len(cb)
         THEN ExpandList(A, <<ca[i]>>, 1, 1) \o Merge(A, B, ca, cb, i + 1, j)
    ELSE IF i > Len(ca)
         THEN ExpandList(B, <<cb[j]>>, 1, 2) \o Merge(A, B, ca, cb, i, j + 1)
    ELSE LET a == A[ca[i]].elem
             b == B[cb[j]].elem
         IN  IF a.rp = b.rp
             THEN SamePathRows(a, b)
                  \o (IF isDirectory(a) /\ isDirectory(b)
                      THEN Merge(A, B, Content(A, ca[i]), Content(B, cb[j]), 1, 1)
                      ELSE <<>>)
                  \o Merge(A, B, ca, cb, i + 1, j + 1)
             ELSE IF Less(a, b)
             THEN ExpandList(A, <<ca[i]>>, 1, 1) \o Merge(A, B, ca, cb, i + 1, j)
             ELSE ExpandList(B, <<cb[j]>>, 1, 2) \o Merge(A, B, ca, cb, i, j + 1)

\* compare2(a, b)
compare2(a, b) == Merge(a.nodes, b.nodes, Content(a.nodes, 0), Content(b.nodes, 0), 1, 1)

-----------------------------------------------------------------------------
(* The codec on one record: FilesystemElement(line) of writeTo's line      *)

UserNames == { <<114,111,111,116>>, <<117,49>> }        \* "root", "u1"
GroupNames == { <<114,111,111,116>>, <<115,116,97,102,102>> } \* "root", "staff"

\* 1969-12-31 23:59:59, the epoch, 1970-01-01 23:59:59, 1969-12-31 00:00:00,
\* 2000-02-29 12:34:56, 2022-01-01 00:00:00, 2038-01-19 03:14:07,
\* 1901-12-14 20:00:00 (times are kept within 32 bits)
MTimes ==
    { 0 - 1, 0, 86399, 0 - 86400, 951827696, 1640995200, 2147483647,
      0 - 2147400000 }

\* the sizes of regular files (off_t is signed)
Sizes == { 0, 123456789, 0 - 5 }

\* "a", "a b", "d/q"x", "b\c"
PathTexts == { <<97>>, <<97,32,98>>, <<100,47,113,34,120>>, <<98,92,99>> }

\* "t", "../x y"
LinkTexts == { <<116>>, <<46,46,47,120,32,121>> }

\* the records the codec is exercised on: every permission word for every
\* type, and every combination of the other fields
CodecElements ==
    { [ty |-> t, per |-> p, us |-> <<114,111,111,116>>, gs |-> <<114,111,111,116>>,
       mt |-> 1640995200,
       sz |-> IF t = "regular" THEN 7 ELSE 0,
       fileHash |-> IF t = "regular" THEN hashFile(1) ELSE <<>>,
       rp |-> <<97>>,
       symlink |-> IF t = "symlink" THEN <<116>> ELSE <<>>,
       hardLinkCnt |-> 1] :
      t \in {"regular", "directory", "symlink", "unknown"}, p \in 0..511 }
    \cup
    { [ty |-> t, per |-> 420, us |-> u, gs |-> g, mt |-> m,
       sz |-> IF t = "regular" THEN z ELSE 0,
       fileHash |-> IF t = "regular" THEN hashFile(1) ELSE <<>>,
       rp |-> r,
       symlink |-> IF t = "symlink" THEN l ELSE <<>>,
       hardLinkCnt |-> h] :
      t \in {"regular", "directory", "symlink", "unknown"},
      u \in UserNames, g \in GroupNames, m \in MTimes, z \in Sizes,
      r \in PathTexts, l \in LinkTexts, h \in {1, 2} }

InitCodec ==
    /\ ndebug \in BOOLEAN
    /\ pc = "codec"
    /\ elem \in CodecElements
    /\ os = <<>>
    /\ decoded = [ok |-> FALSE, elem |-> DefaultElement, what |-> <<>>]
    /\ fe = <<>>
    /\ sortedFe = <<>>
    /\ disk = {}
    /\ dirOrder = AscendingOrder
    /\ printBreak = FALSE
    /\ unsupported = FALSE
    /\ flagBefore = FALSE
    /\ input = <<>>
    /\ inputName = <<>>
    /\ tree = NoTree
    /\ diskB = {}
    /\ inputB = <<>>
    /\ treeB = NoTree
    /\ diff = <<>>
    /\ cmd = NoCommand
    /\ fsFiles = {}
    /\ dest = "none"
    /\ cerr = <<>>
    /\ exitStatus = 0 - 1

\* the elements readFrom is called on: one just constructed, and one that
\* earlier reads have filled
ReadTargets ==
    { DefaultElement,
      [ty |-> "regular", per |-> 511, us |-> <<117>>, gs |-> <<103>>, mt |-> 1,
       sz |-> 9, fileHash |-> hashFile(2), rp |-> <<122>>, symlink |-> <<120>>,
       hardLinkCnt |-> 2] }

\* e.writeTo(os)
WriteTo ==
    /\ ndebug' = ndebug
    /\ pc = "codec"
    /\ \E t0 \in StackTm : os' = os \o writeTo(elem, ndebug, t0)
    /\ pc' = "written"
    /\ UNCHANGED <<elem, decoded, orderVars, listVars, diffVars, mainVars>>

\* the line as getline returns it: without the '\n' that ends it
StripNewline(s) == IF s # <<>> /\ s[Len(s)] = NL THEN SubSeq(s, 1, Len(s) - 1) ELSE s

\* FilesystemElement(diffLine), or readFrom(diffLine) on an element that
\* was read before: diffFileName = "", lineNo = -1
ReadLine ==
    /\ ndebug' = ndebug
    /\ pc = "written"
    /\ \E target \in ReadTargets :
          decoded' = readFrom(target, StripNewline(os), <<>>, 0 - 1)
    /\ pc' = "decoded"
    /\ UNCHANGED <<elem, os, orderVars, listVars, diffVars, mainVars>>

NextCodec == WriteTo \/ ReadLine

SpecCodec == InitCodec /\ [][NextCodec]_vars

\* the fields of a record that its line carries: the kind, the
\* permissions, the owner, the group, the modification time, the path, the
\* size and the hash of a regular file, the target of a symlink
SameWritten(a, b) ==
    /\ a.ty = b.ty /\ a.per = b.per /\ a.us = b.us /\ a.gs = b.gs
    /\ a.mt = b.mt /\ a.rp = b.rp
    /\ (b.ty = "regular" => a.sz = b.sz /\ a.fileHash = b.fileHash)
    /\ (b.ty = "symlink" => a.symlink = b.symlink)

\* C10: for every record r, whatever its kind and the values of its fields,
\* readFrom succeeds on the line written by writeTo(r) and yields a record
\* with the fields of r that the line carries and hard-link count 1.
C10_RoundTrip ==
    pc = "decoded" =>
        decoded.ok /\ SameWritten(decoded.elem, elem) /\ decoded.elem.hardLinkCnt = 1

\* the modification time is one that readFrom takes back: it is not
\* 1969-12-31 23:59:59 (and its year is one %Y reads, 0 to 9999, as the
\* year of every time within 32 bits is)
TimeReadable(mt) ==
    mt # 0 - 1 /\ GmTime(mt).year >= 0 /\ GmTime(mt).year <= 9999

\* the same, in a build that keeps the assert of writeTo and for the
\* records with such a modification time
C10_RoundTripWhereTimeReadable ==
    (pc = "decoded" /\ ~ndebug /\ TimeReadable(elem.mt)) =>
        decoded.ok /\ SameWritten(decoded.elem, elem) /\ decoded.elem.hardLinkCnt = 1

\* the line of a record with another modification time is rejected
C10_UnreadableTimeRejected ==
    (pc = "decoded" /\ ~ndebug /\ ~TimeReadable(elem.mt)) =>
        ~decoded.ok /\ decoded.what = FailMessage(ErrMtime, StripNewline(os), <<>>, 0 - 1)

\* in a build with NDEBUG the line carries what the memory of the struct tm
\* held: that is the time read back, or the line is rejected for its time
C10_TimeLostWithNdebug ==
    (pc = "decoded" /\ ndebug) =>
        IF decoded.ok THEN decoded.elem.mt = IndeterminateTime
        ELSE decoded.what = FailMessage(ErrMtime, StripNewline(os), <<>>, 0 - 1)

\* the line of a directory read into an element that held the size of a
\* regular file: the size is left as it was
C10_ReadIntoUsedElement ==
    /\ pc = "decoded" /\ decoded.ok /\ ~ndebug
    /\ elem.ty = "directory" /\ decoded.elem.sz = 9

-----------------------------------------------------------------------------
(* The order on the records of one list: fe.sort() of recursiveListFiles   *)

MaxSiblings == 3

\* "B", "a", "a.b", "ab", and "a/b", which lies in another directory, also
\* written "a//b"
OrderPaths ==
    { <<66>>, <<97>>, <<97,46,98>>, <<97,98>>, <<97,47,98>>, <<97,47,47,98>> }

\* operator== of std::filesystem::path: the same root directory and names
SamePath(p, q) ==
    HasRootDirectory(p) = HasRootDirectory(q) /\ Components(p) = Components(q)

\* a record of the given type and path, its other fields plain
PlainElement(t, r) ==
    [ty |-> t, per |-> 420, us |-> <<114,111,111,116>>, gs |-> <<114,111,111,116>>,
     mt |-> 1640995200,
     sz |-> IF t = "regular" THEN 7 ELSE 0,
     fileHash |-> IF t = "regular" THEN hashFile(1) ELSE <<>>,
     rp |-> r,
     symlink |-> IF t = "symlink" THEN <<116>> ELSE <<>>,
     hardLinkCnt |-> 1]

OrderElements ==
    { PlainElement(t, r) : t \in {"directory", "regular", "symlink"}, r \in OrderPaths }

\* the lists of at most MaxSiblings records with pairwise distinct paths
OrderLists ==
    UNION { { l \in [1..n -> OrderElements] :
                \A i, j \in 1..n : i # j => ~SamePath(l[i].rp, l[j].rp) } :
            n \in 0..MaxSiblings }

InitOrder ==
    /\ ndebug = FALSE
    /\ pc = "enumerated"
    /\ fe \in OrderLists
    /\ sortedFe = <<>>
    /\ os = <<>>
    /\ elem = DefaultElement
    /\ decoded = [ok |-> FALSE, elem |-> DefaultElement, what |-> <<>>]
    /\ disk = {}
    /\ dirOrder = AscendingOrder
    /\ printBreak = FALSE
    /\ unsupported = FALSE
    /\ flagBefore = FALSE
    /\ input = <<>>
    /\ inputName = <<>>
    /\ tree = NoTree
    /\ diskB = {}
    /\ inputB = <<>>
    /\ treeB = NoTree
    /\ diff = <<>>
    /\ cmd = NoCommand
    /\ fsFiles = {}
    /\ dest = "none"
    /\ cerr = <<>>
    /\ exitStatus = 0 - 1

\* fe.sort()
SortList ==
    /\ ndebug' = ndebug
    /\ pc = "enumerated"
    /\ sortedFe' = Sort(fe)
    /\ pc' = "sorted"
    /\ UNCHANGED <<fe, os, codecVars, listVars, diffVars, mainVars>>

NextOrder == SortList

SpecOrder == InitOrder /\ [][NextOrder]_vars

\* the records of l lie in one directory
Siblings(l) == \A i, j \in 1..Len(l) : ParentPath(l[i].rp) = ParentPath(l[j].rp)

\* case-sensitive order of two texts: by the byte values, a prefix first
RECURSIVE BytesAscending(_, _)
BytesAscending(a, b) ==
    IF b = <<>> THEN FALSE
    ELSE IF a = <<>> THEN TRUE
    ELSE IF a[1] < b[1] THEN TRUE
    ELSE IF a[1] > b[1] THEN FALSE
    ELSE BytesAscending(Tail(a), Tail(b))

\* l2 holds the elements of l1 (the paths of l1 are pairwise distinct)
SameElements(l1, l2) ==
    /\ Len(l1) = Len(l2)
    /\ \A i \in 1..Len(l1) : \E j \in 1..Len(l2) : l2[j] = l1[i]

\* C8: operator< is a strict total order on records with pairwise distinct
\* paths (irreflexive, transitive, exactly one of a<b, b<a for a # b), and a
\* sibling list sorted by it has every directory before every non-directory
\* and, within either kind, the paths in ascending case-sensitive order.
C8_TotalOrderDirsFirst ==
    /\ \A i, j, k \in 1..Len(fe) :
          /\ ~Less(fe[i], fe[i])
          /\ (Less(fe[i], fe[j]) /\ Less(fe[j], fe[k])) => Less(fe[i], fe[k])
          /\ (i # j) => (Less(fe[i], fe[j]) # Less(fe[j], fe[i]))
    /\ (pc = "sorted") =>
          /\ SameElements(fe, sortedFe)
          /\ Siblings(fe) =>
                \A i, j \in 1..Len(sortedFe) : (i < j) =>
                    /\ isDirectory(sortedFe[j]) => isDirectory(sortedFe[i])
                    /\ (isDirectory(sortedFe[i]) = isDirectory(sortedFe[j]))
                          => BytesAscending(sortedFe[i].rp, sortedFe[j].rp)

\* a sorted sibling list of three records, directories and files, that the
\* directory did not enumerate in order
C8_Witness ==
    /\ pc = "sorted"
    /\ Len(fe) = 3
    /\ Siblings(fe)
    /\ sortedFe # fe
    /\ \E i, j \in 1..3 : isDirectory(fe[i]) /\ ~isDirectory(fe[j])
    /\ \E i, j \in 1..3 : i # j /\ isDirectory(fe[i]) = isDirectory(fe[j])

-----------------------------------------------------------------------------
(* ls and test: a directory listed by FileLister, the text read back by    *)
(* DirectoryTree                                                           *)

MaxNodes == 3
MaxDamaged == 2

\* the file names used on disk: "a", "b"
FileNames == <<97, 98>>

PlainStat(t) ==
    [ty |-> t, per |-> IF t = "directory" THEN 493 ELSE 420,
     us |-> <<114,111,111,116>>, gs |-> <<114,111,111,116>>, mt |-> 1640995200,
     size |-> 7, content |-> 1, target |-> <<116>>, nlink |-> 1]

\* what a listed directory holds besides directories: a regular file, a
\* symlink, a FIFO (hard links are listed under SpecBuilds)
ListLeafStats ==
    { PlainStat("regular"), PlainStat("symlink"), PlainStat("fifo") }

ListDirStats == { PlainStat("directory") }

\* the directory contents below prefix that use the given names, hold at
\* most budget entries, and take their entries from leafs and dirs
RECURSIVE Forests(_, _, _, _, _)
Forests(prefix, names, budget, leafs, dirs) ==
    IF names = <<>> \/ budget = 0 THEN { {} }
    ELSE LET p == IF prefix = <<>> THEN <<Head(names)>>
                  ELSE prefix \o <<SLASH, Head(names)>>
             rest == Tail(names)
         IN  Forests(prefix, rest, budget, leafs, dirs)
             \cup { {[path |-> p, st |-> v]} \cup F :
                    v \in leafs, F \in Forests(prefix, rest, budget - 1, leafs, dirs) }
             \cup UNION { { {[path |-> p, st |-> v]} \cup sub \cup F :
                            v \in dirs,
                            F \in Forests(prefix, rest, budget - 1 - Cardinality(sub),
                                          leafs, dirs) } :
                          sub \in Forests(p, FileNames, budget - 1, leafs, dirs) }

ListDisks == Forests(<<>>, FileNames, MaxNodes, ListLeafStats, ListDirStats)

\* "", "dump.txt"
StreamNames == { <<>>, <<100,117,109,112,46,116,120,116>> }

InitList ==
    /\ ndebug \in BOOLEAN
    /\ pc = "start"
    /\ disk \in ListDisks
    /\ dirOrder \in {AscendingOrder, DescendingOrder}
    /\ os = <<>>
    /\ printBreak = FALSE
    /\ unsupported = FALSE
    /\ flagBefore = FALSE
    /\ input = <<>>
    /\ inputName = <<>>
    /\ tree = NoTree
    /\ diskB = {}
    /\ inputB = <<>>
    /\ treeB = NoTree
    /\ diff = <<>>
    /\ cmd = NoCommand
    /\ fsFiles = {}
    /\ dest = "none"
    /\ cerr = <<>>
    /\ exitStatus = 0 - 1
    /\ elem = DefaultElement
    /\ decoded = [ok |-> FALSE, elem |-> DefaultElement, what |-> <<>>]
    /\ fe = <<>>
    /\ sortedFe = <<>>

\* FileLister::listFiles(top)
ListFiles ==
    /\ ndebug' = ndebug
    /\ pc = "start"
    /\ \E stack \in Stacks(Cardinality(disk), ndebug) :
          LET L == listFiles([os |-> os, cerr |-> cerr, printBreak |-> printBreak,
                              unsupported |-> unsupported, stack |-> stack],
                             disk, dirOrder, ndebug)
          IN  /\ os' = L.os
              /\ cerr' = L.cerr
              /\ printBreak' = L.printBreak
              /\ unsupported' = L.unsupported
    /\ flagBefore' = unsupported
    /\ pc' = "listed"
    /\ UNCHANGED <<disk, dirOrder, input, inputName, tree, codecVars, orderVars,
                   diffVars, cmd, fsFiles, dest, exitStatus>>

\* the output is kept as a snapshot file, under a name or as a bare stream
StoreSnapshot ==
    /\ ndebug' = ndebug
    /\ pc = "listed"
    /\ input' = os
    /\ inputName' \in StreamNames
    /\ pc' = "stored"
    /\ UNCHANGED <<os, disk, dirOrder, printBreak, unsupported, tree, codecVars,
                   orderVars, diffVars, mainVars, flagBefore>>

\* a line damaged: its type character replaced, characters added after the
\* path, or the line cut after 25 characters (inside the timestamp that
\* gmtime_r and put_time write)
Damage(l, kind) ==
    CASE kind = "type" -> [l EXCEPT ![1] = 120]
      [] kind = "extra" -> l \o <<32, 120>>
      [] OTHER -> SubSeq(l, 1, 25)

\* the text of a list of lines
RECURSIVE Unlines(_)
Unlines(ls) == IF ls = <<>> THEN <<>> ELSE Head(ls) \o <<NL>> \o Unlines(Tail(ls))

\* the snapshot file is kept with some of its record lines damaged
CorruptSnapshot ==
    /\ ndebug' = ndebug
    /\ pc = "listed"
    /\ LET ls == Lines(os)
           recordLines == { k \in 1..Len(ls) : ls[k] # <<>> }
       IN  \E K \in SUBSET recordLines, kind \in {"type", "extra", "cut"} :
              /\ K # {}
              /\ Cardinality(K) <= MaxDamaged
              /\ input' = Unlines([k \in 1..Len(ls) |->
                                      IF k \in K THEN Damage(ls[k], kind) ELSE ls[k]])
    /\ inputName' \in StreamNames
    /\ pc' = "stored"
    /\ UNCHANGED <<os, disk, dirOrder, printBreak, unsupported, tree, codecVars,
                   orderVars, diffVars, mainVars, flagBefore>>

\* DirectoryTree dt(in, fileName)
ReadFrom ==
    /\ ndebug' = ndebug
    /\ pc = "stored"
    /\ tree' = DirectoryTreeFromStream(input, inputName)
    /\ pc' = "read"
    /\ UNCHANGED <<os, disk, dirOrder, printBreak, unsupported, input, inputName,
                   codecVars, orderVars, diffVars, mainVars, flagBefore>>

\* DirectoryTree::clear(): the nodes of the tree released
Clear ==
    /\ ndebug' = ndebug
    /\ pc = "read"
    /\ tree.ok
    /\ tree' = [tree EXCEPT !.nodes = <<>>]
    /\ pc' = "cleared"
    /\ UNCHANGED <<os, disk, dirOrder, printBreak, unsupported, input, inputName,
                   codecVars, orderVars, diffVars, mainVars, flagBefore>>

NextList == ListFiles \/ StoreSnapshot \/ CorruptSnapshot \/ ReadFrom \/ Clear

SpecList == InitList /\ [][NextList]_vars

\* two pre-order walks agree: the same number of records, equal record by
\* record (operator==), each attached under the same directory
SameWalk(w1, w2) ==
    /\ Len(w1) = Len(w2)
    /\ \A i \in 1..Len(w1) :
          ElementEq(w1[i].elem, w2[i].elem) /\ w1[i].under = w2[i].under

\* C1: for any tree built from disk, reading back the text the block
\* writer produced for it gives a tree whose pre-order walk equals the
\* original's record by record (hard-link count ignored), every record
\* under the same parent directory.
C1_RoundTrip ==
    (pc = "read" /\ input = os) =>
        /\ tree.ok
        /\ SameWalk(PreOrder(tree), PreOrder(scanDirectory(disk, dirOrder)))

\* some directory without entries is listed before a directory with entries
EmptyBeforeNonEmpty ==
    LET w == PreOrder(scanDirectory(disk, dirOrder))
    IN  \E i, j \in 1..Len(w) :
           /\ i < j
           /\ isDirectory(w[i].elem) /\ ChildrenOf(disk, w[i].elem.rp) = {}
           /\ isDirectory(w[j].elem) /\ ChildrenOf(disk, w[j].elem.rp) # {}

\* the round trip of every tree in which no empty directory comes before a
\* directory with entries, in a build that keeps the assert of writeTo
C1_RoundTripNoEmptyBefore ==
    (pc = "read" /\ input = os /\ ~EmptyBeforeNonEmpty /\ ~ndebug) =>
        /\ tree.ok
        /\ SameWalk(PreOrder(tree), PreOrder(scanDirectory(disk, dirOrder)))

\* the record lines of a text that do not parse
BadLines(text) ==
    LET ls == Lines(text)
    IN  { k \in 1..Len(ls) :
            ls[k] # <<>> /\ ~ElementFromLine(ls[k], <<>>, k).ok }

\* the first line of a text that is a record line and does not parse
\* (0 when every record line parses)
FirstBadLine(text) == IF BadLines(text) = {} THEN 0 ELSE Least(BadLines(text))

StartsWith(s, pre) == Len(pre) <= Len(s) /\ SubSeq(s, 1, Len(pre)) = pre

EndsWith(s, suf) ==
    Len(suf) <= Len(s) /\ SubSeq(s, Len(s) - Len(suf) + 1, Len(s)) = suf

\* C9: when line k is the first line of the stream that fails the record
\* parse, the read ends with an error that names line k, names the stream
\* when its name is known and carries the text of the line, and no tree
\* (in particular none holding the records of lines 1..k-1) is left.
C9_ParseErrorLocality ==
    (pc = "read") =>
        LET k == FirstBadLine(input)
        IN  (k > 0) =>
              /\ ~tree.ok
              /\ tree.nodes = <<>>
              /\ EndsWith(tree.what,
                          <<32,97,116,32,108,105,110,101>> \o Dec(k)
                          \o <<44,32,119,114,111,110,103,32,108,105,110,101,32,105,115,32,39>>
                          \o Lines(input)[k] \o <<39>>)
              /\ (inputName # <<>>) => StartsWith(tree.what, inputName \o <<58, 32>>)

\* a named stream read whose first bad line is not line 1, with a second
\* bad line after it: the read had stored records when it was given up
C9_Witness ==
    /\ pc = "read"
    /\ inputName # <<>>
    /\ FirstBadLine(input) >= 2
    /\ Cardinality(BadLines(input)) >= 2
    /\ ReadTree(input, inputName).nodes # <<>>
    /\ ~tree.ok


-----------------------------------------------------------------------------
(* compare: two directories built into trees and compared by compare2      *)

\* what the source directory holds: regular files and directories
SourceLeafStats == { PlainStat("regular") }
SourceDirStats == { PlainStat("directory") }

\* the target may also hold files of the same size with other content, or
\* directories with other permissions (rwx------)
OtherContent == [PlainStat("regular") EXCEPT !.content = 2]
OtherPermissions == [PlainStat("directory") EXCEPT !.per = 448]

SourceDisks == Forests(<<>>, FileNames, MaxNodes, SourceLeafStats, SourceDirStats)
TargetDisks ==
    Forests(<<>>, FileNames, MaxNodes, SourceLeafStats \cup {OtherContent}, SourceDirStats)
    \cup Forests(<<>>, FileNames, MaxNodes, SourceLeafStats,
                 SourceDirStats \cup {OtherPermissions})

\* compare --source <directory> --target <directory>
CompareCommand ==
    [op |-> "compare", out |-> FALSE, outName |-> <<>>,
     source |-> TRUE, sourceIs |-> "directory",
     target |-> TRUE, targetIs |-> "directory"]

InitDiff ==
    /\ ndebug = FALSE
    /\ pc = "main"
    /\ disk \in SourceDisks
    /\ diskB \in TargetDisks
    /\ inputB = <<>>
    /\ dirOrder = AscendingOrder
    /\ tree = NoTree
    /\ treeB = NoTree
    /\ diff = <<>>
    /\ cmd = CompareCommand
    /\ fsFiles = {}
    /\ dest = "none"
    /\ cerr = <<>>
    /\ exitStatus = 0 - 1
    /\ os = <<>>
    /\ printBreak = FALSE
    /\ unsupported = FALSE
    /\ flagBefore = FALSE
    /\ input = <<>>
    /\ inputName = <<>>
    /\ elem = DefaultElement
    /\ decoded = [ok |-> FALSE, elem |-> DefaultElement, what |-> <<>>]
    /\ fe = <<>>
    /\ sortedFe = <<>>

\* the path a row is for
RowPath(r) == IF r[1] # <<>> THEN r[1][1].rp ELSE r[2][1].rp

\* the rows of the diff for path p
RowsFor(p) == { i \in 1..Len(diff) : RowPath(diff[i]) = p }

\* path q lies below directory p
Below(p, q) == Len(q) > Len(p) + 1 /\ SubSeq(q, 1, Len(p) + 1) = p \o <<SLASH>>

Records(t) == { t.nodes[i].elem : i \in 1..Len(t.nodes) }
Paths(t) == { e.rp : e \in Records(t) }
RecordAt(t, p) == CHOOSE e \in Records(t) : e.rp = p

\* the target is the source with the regular file e replaced by a
\* directory of the same name, with any content
TypeChanged(e) ==
    /\ e \in disk /\ e.st.ty = "regular"
    /\ \E x \in diskB : x.path = e.path /\ x.st.ty = "directory"
    /\ { x \in diskB : x.path # e.path /\ ~Below(e.path, x.path) } = disk \ {e}

\* the type change of e is reported by one row with both records, and
\* nothing below e is reported
ReportedAsTypeChange(e) ==
    /\ Cardinality(RowsFor(e.path)) = 1
    /\ \A i \in RowsFor(e.path) : diff[i][1] # <<>> /\ diff[i][2] # <<>>
    /\ \A i \in 1..Len(diff) : ~Below(e.path, RowPath(diff[i]))

\* C2: when T' is T with a regular file f replaced by a directory of the
\* same name (any siblings, any position, any children), compare2(T, T') has
\* exactly one row for the path of f, with both slots populated, and no row
\* for any path below f.
C2_TypeChange ==
    (pc = "exited") =>
        \A e \in disk : TypeChanged(e) => ReportedAsTypeChange(e)

\* in the sorted sibling lists the file e and the directory replacing it
\* meet: no regular file of the directory of e comes before e, and no
\* directory of it after e
MeetsInMerge(e) ==
    \A x \in disk :
        (x # e /\ ParentPath(x.path) = ParentPath(e.path)) =>
            IF x.st.ty = "directory" THEN BytesAscending(x.path, e.path)
            ELSE BytesAscending(e.path, x.path)

\* the type change is reported as one row exactly when the two records meet
\* in the merge
C2_TypeChangeWhenMeeting ==
    (pc = "exited") =>
        \A e \in disk : TypeChanged(e) => (ReportedAsTypeChange(e) <=> MeetsInMerge(e))

\* C3: compare2(A, B) has exactly one row for every path whose records in
\* A and B are unequal or that is in exactly one of the trees, no row for
\* any other path, and a slot of a row is absent only when the path is not
\* in that tree.
C3_OneRowPerDifference ==
    (pc = "exited") =>
        /\ \A p \in Paths(tree) \cup Paths(treeB) :
              LET differs == \/ p \notin Paths(tree)
                             \/ p \notin Paths(treeB)
                             \/ ~ElementEq(RecordAt(tree, p), RecordAt(treeB, p))
              IN  Cardinality(RowsFor(p)) = IF differs THEN 1 ELSE 0
        /\ \A i \in 1..Len(diff) :
              /\ RowPath(diff[i]) \in Paths(tree) \cup Paths(treeB)
              /\ (diff[i][1] = <<>>) => RowPath(diff[i]) \notin Paths(tree)
              /\ (diff[i][2] = <<>>) => RowPath(diff[i]) \notin Paths(treeB)

\* no path is a regular file in one tree and a directory in the other
NoTypeChange ==
    \A p \in Paths(tree) \cap Paths(treeB) :
        isDirectory(RecordAt(tree, p)) = isDirectory(RecordAt(treeB, p))

\* one row per difference between trees without a type change
C3_OneRowPerDifferenceSameTypes ==
    (pc = "exited" /\ NoTypeChange) =>
        /\ \A p \in Paths(tree) \cup Paths(treeB) :
              LET differs == \/ p \notin Paths(tree)
                             \/ p \notin Paths(treeB)
                             \/ ~ElementEq(RecordAt(tree, p), RecordAt(treeB, p))
              IN  Cardinality(RowsFor(p)) = IF differs THEN 1 ELSE 0
        /\ \A i \in 1..Len(diff) :
              /\ RowPath(diff[i]) \in Paths(tree) \cup Paths(treeB)
              /\ (diff[i][1] = <<>>) => RowPath(diff[i]) \notin Paths(tree)
              /\ (diff[i][2] = <<>>) => RowPath(diff[i]) \notin Paths(treeB)

\* the entries of the source below directory d
Descendants(d) == { x \in disk : Below(d.path, x.path) }

\* the target is the source without directory d and everything below it
SubtreeRemoved(d) ==
    /\ d \in disk /\ d.st.ty = "directory"
    /\ diskB = disk \ ({d} \cup Descendants(d))

\* C4: when T' is T with a directory d and its n descendants removed,
\* compare2(T, T') has exactly 1 + n rows, the rows of d and of its
\* descendants, every one with the first slot populated and the second
\* absent, the row of d before those of its descendants.
C4_SubtreeRemoval ==
    (pc = "exited") =>
        \A d \in disk : SubtreeRemoved(d) =>
            /\ Len(diff) = 1 + Cardinality(Descendants(d))
            /\ { RowPath(diff[i]) : i \in 1..Len(diff) }
                   = { x.path : x \in {d} \cup Descendants(d) }
            /\ \A i \in 1..Len(diff) : diff[i][1] # <<>> /\ diff[i][2] = <<>>
            /\ \A i, j \in 1..Len(diff) :
                  (RowPath(diff[i]) = d.path /\ Below(d.path, RowPath(diff[j]))) => i < j

\* a directory with entries below it removed from a source that keeps
\* other entries
C4_Witness ==
    /\ pc = "exited"
    /\ diskB # {}
    /\ \E d \in disk :
          /\ SubtreeRemoved(d)
          /\ Descendants(d) # {}
          /\ Len(diff) = 1 + Cardinality(Descendants(d))

\* C5: a tree compared with itself gives an empty diff: the two builds of
\* one directory are the same tree T, and compare2(T, T) has no row.
C5_DiffIdentity ==
    (pc = "exited" /\ diskB = disk) => (treeB = tree /\ diff = <<>>)

\* a directory of three entries, one of them below another, compared with
\* itself
C5_Witness ==
    /\ pc = "exited"
    /\ diskB = disk
    /\ Cardinality(disk) >= 3
    /\ \E x \in disk : ParentPath(x.path) # <<>>
    /\ treeB = tree
    /\ diff = <<>>

\* the target is the source with other content in the regular file e
ContentChanged(e) ==
    /\ e \in disk /\ e.st.ty = "regular"
    /\ \E x \in diskB :
          /\ x.path = e.path /\ x.st.ty = "regular" /\ x.st.content # e.st.content
          /\ diskB \ {x} = disk \ {e}

\* C6: when T' is T with another fingerprint in one regular file (at any
\* depth), compare2(T, T') has exactly one row: for the path of that file,
\* both slots populated, the two records unequal (so no row for any
\* directory above the file).
C6_SingleChange ==
    (pc = "exited") =>
        \A e \in disk : ContentChanged(e) =>
            /\ Len(diff) = 1
            /\ RowPath(diff[1]) = e.path
            /\ diff[1][1] = <<RecordAt(tree, e.path)>>
            /\ diff[1][2] = <<RecordAt(treeB, e.path)>>
            /\ ~ElementEq(diff[1][1][1], diff[1][2][1])
            /\ diff[1][1][1].fileHash # diff[1][2][1].fileHash

\* the changed file lies in a directory of the directory tree
C6_Witness ==
    /\ pc = "exited"
    /\ \E e \in disk :
          /\ ContentChanged(e)
          /\ ParentPath(e.path) # <<>>
          /\ Len(diff) = 1
          /\ RowPath(diff[1]) = e.path

\* a row is the row of a directory: one of its records is a directory
RowIsDirectory(r) == \E k \in 1..2 : r[k] # <<>> /\ isDirectory(r[k][1])

\* row r1 comes strictly before row r2 in the order of records: a
\* directory before a non-directory, then by the path
RowBefore(r1, r2) ==
    IF RowIsDirectory(r1) # RowIsDirectory(r2) THEN RowIsDirectory(r1)
    ELSE BytesAscending(RowPath(r1), RowPath(r2))

\* C7: the rows are in pre-order: the row of a directory before the rows of
\* all paths below it, the rows of the paths below one directory
\* contiguous, and the rows of sibling paths in the order of records
\* (the rows of directories first, then by path).
C7_RowsInPreOrder ==
    (pc = "exited") =>
        /\ \A i, j \in 1..Len(diff) :
              (RowIsDirectory(diff[i]) /\ Below(RowPath(diff[i]), RowPath(diff[j]))) => i < j
        /\ \A p \in Paths(tree) \cup Paths(treeB) : \A i, j, k \in 1..Len(diff) :
              (i < k /\ k < j /\ Below(p, RowPath(diff[i])) /\ Below(p, RowPath(diff[j])))
                  => Below(p, RowPath(diff[k]))
        /\ \A i, j \in 1..Len(diff) :
              (i < j /\ ParentPath(RowPath(diff[i])) = ParentPath(RowPath(diff[j])))
                  => ~RowBefore(diff[j], diff[i])

\* a diff of at least three rows: a directory row with a row below it, a
\* directory row and a file row of sibling paths, rows of either side
C7_Witness ==
    /\ pc = "exited"
    /\ Len(diff) >= 3
    /\ \E i, j \in 1..Len(diff) :
          RowIsDirectory(diff[i]) /\ Below(RowPath(diff[i]), RowPath(diff[j]))
    /\ \E i, j \in 1..Len(diff) :
          /\ i < j
          /\ ParentPath(RowPath(diff[i])) = ParentPath(RowPath(diff[j]))
          /\ RowIsDirectory(diff[i]) /\ ~RowIsDirectory(diff[j])
    /\ \E i \in 1..Len(diff) : diff[i][1] = <<>>
    /\ \E i \in 1..Len(diff) : diff[i][2] = <<>>


-----------------------------------------------------------------------------
(* main: the operations ls, compare and test run from the command line     *)

MaxArgNodes == 2

\* the directories given to ls as source
ArgDisks == Forests(<<>>, FileNames, MaxArgNodes, ListLeafStats, ListDirStats)

MaxCompareNodes == 1

\* the directories given to compare as source and target
CompareDisks == Forests(<<>>, FileNames, MaxCompareNodes, ListLeafStats, ListDirStats)

\* "out.txt", the file named by --out
OutName == <<111,117,116,46,116,120,116>>

\* "no/out.txt", a name in a directory that does not exist
LostName == <<110,111,47>> \o OutName

\* what a path given as source or target is: a directory, a snapshot file,
\* or nothing that exists
PathKinds == {"directory", "file", "nothing"}

\* the command lines: no operation (argc < 2), an unknown one, ls, compare
\* or test; the option out absent, given with an empty value, naming
\* out.txt or naming no/out.txt; the options source and target absent or
\* given
CommandLines ==
    { c \in [op : {"none", "bogus", "ls", "compare", "test"},
             out : BOOLEAN, outName : {<<>>, OutName, LostName},
             source : BOOLEAN, sourceIs : PathKinds,
             target : BOOLEAN, targetIs : PathKinds] :
        /\ (~c.out => c.outName = <<>>)
        /\ (~c.source => c.sourceIs = "nothing")
        /\ (~c.target => c.targetIs = "nothing") }

\* "dump.txt"
DumpName == <<100,117,109,112,46,116,120,116>>

\* "snap.txt", the snapshot file given as source or target
SnapName == <<115,110,97,112,46,116,120,116>>

\* DirectoryTree::unsupportedFilesFound() after scanDirectory
unsupportedFilesFound(d) == \E e \in d : Unsupported(ElementFromDisk(e))

\* "Output file out.txt already exists. Aborting.\n"
ExistsMessage ==
    <<79,117,116,112,117,116,32,102,105,108,101,32>> \o OutName
    \o <<32,97,108,114,101,97,100,121,32,101,120,105,115,116,115,46,32,65,98,111,114,116,105,110,103,46,10>>

\* "Warning: unsupported files found\n"
UnsupportedMessage ==
    <<87,97,114,110,105,110,103,58,32,117,110,115,117,112,112,111,114,116,101,100,32,102,105,108,101,115,32,102,111,117,110,100,10>>

\* DirectoryTree::recursiveWrite on the writer state L = [os, printBreak,
\* stack]: the content of node n as a block, then the blocks of its
\* directories; stack is what the struct tm of the calls of writeTo to
\* come hold
RECURSIVE WriteNodes(_, _, _, _, _)
WriteNodes(L, nodes, c, i, nd) ==
    IF i > Len(c) THEN L
    ELSE WriteNodes([L EXCEPT !.os = @ \o writeTo(nodes[c[i]].elem, nd, Head(L.stack)),
                              !.stack = Tail(@)],
                    nodes, c, i + 1, nd)

RECURSIVE recursiveWrite(_, _, _, _)
RECURSIVE WriteDirectories(_, _, _, _, _)
recursiveWrite(L, nodes, n, nd) ==
    LET L1 == IF L.printBreak THEN [L EXCEPT !.os = @ \o <<NL>>] ELSE L
        c == Content(nodes, n)
        L2 == WriteNodes(L1, nodes, c, 1, nd)
        L3 == [L2 EXCEPT !.printBreak = (c # <<>>)]
    IN  WriteDirectories(L3, nodes, c, 1, nd)

WriteDirectories(L, nodes, c, i, nd) ==
    IF i > Len(c) THEN L
    ELSE IF isDirectory(nodes[c[i]].elem)
         THEN WriteDirectories(recursiveWrite(L, nodes, c[i], nd), nodes, c, i + 1, nd)
         ELSE WriteDirectories(L, nodes, c, i + 1, nd)

\* operator<<(ostream, DirectoryTree): the text written
treeWriteTo(t, nd, stack) ==
    recursiveWrite([os |-> <<>>, printBreak |-> FALSE, stack |-> stack],
                   t.nodes, 0, nd).os

\* Not a character: stands for what the rendering of a diff writes in the
\* place of a record that is absent
ABSENT == 258

\* the records present in the rows of a diff
RECURSIVE PresentCount(_)
PresentCount(d) ==
    IF d = <<>> THEN 0
    ELSE Len(Head(d)[1]) + Len(Head(d)[2]) + PresentCount(Tail(d))

\* one slot of a row: the line of the record, or the placeholder
SlotWritten(L, slot, nd) ==
    IF slot = <<>> THEN [L EXCEPT !.os = @ \o <<ABSENT, NL>>]
    ELSE [L EXCEPT !.os = @ \o writeTo(slot[1], nd, Head(L.stack)),
                   !.stack = Tail(@)]

\* operator<<(ostream, DirectoryDiff<2>): every row as a block of its own,
\* the two slots one after the other in the line format of the records
RECURSIVE diffWriteRows(_, _, _)
diffWriteRows(L, d, nd) ==
    IF d = <<>> THEN L
    ELSE LET L1 == SlotWritten(SlotWritten(L, Head(d)[1], nd), Head(d)[2], nd)
         IN  diffWriteRows([L1 EXCEPT !.os = @ \o <<NL>>], Tail(d), nd)

diffWriteTo(d, nd, stack) == diffWriteRows([os |-> <<>>, stack |-> stack], d, nd).os

\* a snapshot file that is no snapshot: the line "x"
DamagedText == <<120, NL>>

\* the snapshot files of the directories ds: each written as text by a
\* build that keeps the assert of writeTo, and the damaged one
SnapshotsOf(ds) ==
    { treeWriteTo(scanDirectory(d, AscendingOrder), FALSE, AnyStack(Cardinality(d))) :
      d \in ds }
    \cup { DamagedText }

SnapshotTexts == SnapshotsOf(ArgDisks)
CompareTexts == SnapshotsOf(CompareDisks)

\* DirectoryTree::readFrom(diffFile): the file read as a stream under its
\* name; what a file that cannot be opened gives is not in the source, the
\* read fails or finds no line
readFromPath(exists, text) ==
    IF exists
    THEN { ReadTree(text, SnapName) }
    ELSE { [ok |-> FALSE, nodes |-> <<>>, what |-> <<>>],
           [ok |-> TRUE, nodes |-> <<>>, what |-> <<>>] }

\* a constructor of DirectoryTree that calls a read r: the tree read; an
\* exception that leaves the read leaves the constructor, and there is no
\* tree
Constructed(r) == IF r.ok THEN r ELSE [ok |-> FALSE, nodes |-> <<>>, what |-> r.what]

\* DirectoryTree::DirectoryTree(inputPath): a directory is scanned,
\* anything else read as a snapshot file; the trees that may result
DirectoryTree(kind, d, ord, text) ==
    IF kind = "directory" THEN { scanDirectory(d, ord) }
    ELSE { Constructed(r) : r \in readFromPath(kind = "file", text) }

\* DirectoryTree::unsupportedFilesFound() of the tree t so constructed:
\* set by the scan of a directory; after a read the flag is as constructed
\* or set for a record of unknown type (the read is not in the source)
UnsupportedFlags(kind, d, t) ==
    IF kind = "directory" THEN { unsupportedFilesFound(d) }
    ELSE { FALSE, \E i \in 1..Len(t.nodes) : t.nodes[i].elem.ty = "unknown" }

InitMain ==
    /\ ndebug \in BOOLEAN
    /\ pc = "main"
    /\ cmd \in CommandLines
    /\ fsFiles \in SUBSET {"out", "dump"}
    /\ disk \in IF cmd.sourceIs # "directory" THEN { {} }
                ELSE IF cmd.op = "ls" THEN ArgDisks
                ELSE IF cmd.op = "compare" THEN CompareDisks
                ELSE { {} }
    /\ diskB \in IF cmd.op = "compare" /\ cmd.targetIs = "directory"
                 THEN CompareDisks ELSE { {} }
    /\ dirOrder = AscendingOrder
    /\ input \in IF \/ cmd.op = "test" /\ "dump" \in fsFiles
                    \/ cmd.op = "ls" /\ cmd.sourceIs = "file"
                 THEN SnapshotTexts
                 ELSE IF cmd.op = "compare" /\ cmd.sourceIs = "file"
                 THEN CompareTexts
                 ELSE { <<>> }
    /\ inputB \in IF cmd.op = "compare" /\ cmd.targetIs = "file"
                  THEN CompareTexts ELSE { <<>> }
    /\ inputName = <<>>
    /\ dest = "none"
    /\ cerr = <<>>
    /\ exitStatus = 0 - 1
    /\ tree = NoTree
    /\ treeB = NoTree
    /\ diff = <<>>
    /\ os = <<>>
    /\ printBreak = FALSE
    /\ unsupported = FALSE
    /\ flagBefore = FALSE
    /\ elem = DefaultElement
    /\ decoded = [ok |-> FALSE, elem |-> DefaultElement, what |-> <<>>]
    /\ fe = <<>>
    /\ sortedFe = <<>>

\* outFileName of ls and compare: the value of --out, empty without it
outFileName == IF cmd.out THEN cmd.outName ELSE <<>>

\* exists(outFileName)
OutputExists == outFileName = OutName /\ "out" \in fsFiles

\* getOutputFile(): cout when outFileName is empty, else outfile after
\* outfile.open(outFileName); in a directory that does not exist the open
\* fails and the stream returned takes nothing
getOutputFile ==
    IF outFileName = <<>> THEN "cout"
    ELSE IF outFileName = LostName THEN "unopened"
    ELSE "outfile"

\* main with argc < 2 or an operation that is not in the table: the help
\* is printed and 1 returned
Help ==
    /\ ndebug' = ndebug
    /\ pc = "main"
    /\ cmd.op \in {"none", "bogus"}
    /\ dest' = "usage"
    /\ exitStatus' = 1
    /\ pc' = "exited"
    /\ UNCHANGED <<os, cmd, fsFiles, cerr, codecVars, orderVars, listVars, diffVars>>

\* main with the operation ls: ls(vm), then 0 when it returned true, else
\* the help and 1; a runtime_error thrown while the tree is constructed is
\* caught by nothing and ends the process by abort (status 134)
Ls ==
    /\ ndebug' = ndebug
    /\ pc = "main"
    /\ cmd.op = "ls"
    /\ IF cmd.out /\ OutputExists
       THEN /\ cerr' = cerr \o ExistsMessage
            /\ exitStatus' = 0
            /\ UNCHANGED <<tree, os, dest>>
       ELSE IF cmd.source
       THEN \E t \in DirectoryTree(cmd.sourceIs, disk, dirOrder, input) :
               /\ tree' = t
               /\ IF t.ok
                  THEN /\ \E flag \in UnsupportedFlags(cmd.sourceIs, disk, t) :
                             cerr' = IF flag THEN cerr \o UnsupportedMessage ELSE cerr
                       /\ dest' = getOutputFile
                       /\ \E stack \in Stacks(Len(t.nodes), ndebug) :
                             os' = IF getOutputFile = "unopened" THEN <<>>
                                   ELSE treeWriteTo(t, ndebug, stack)
                       /\ exitStatus' = 0
                  ELSE /\ exitStatus' = 134
                       /\ UNCHANGED <<os, dest, cerr>>
       ELSE /\ dest' = "usage"
            /\ exitStatus' = 1
            /\ UNCHANGED <<tree, os, cerr>>
    /\ pc' = "exited"
    /\ UNCHANGED <<cmd, fsFiles, disk, dirOrder, printBreak, unsupported, input,
                   inputName, codecVars, orderVars, diffVars, flagBefore>>

\* main with the operation compare: compare(vm), then 0 when it returned
\* true, else the help and 1; the directories of the target yield their
\* entries in the opposite order; os is what getOutputFile()<<diff
\* wrote to the destination
CompareTrees ==
    /\ ndebug' = ndebug
    /\ pc = "main"
    /\ cmd.op = "compare"
    /\ IF cmd.out /\ OutputExists
       THEN /\ cerr' = cerr \o ExistsMessage
            /\ exitStatus' = 0
            /\ UNCHANGED <<tree, treeB, diff, dest, os>>
       ELSE IF cmd.source /\ cmd.target
       THEN \E a \in DirectoryTree(cmd.sourceIs, disk, dirOrder, input) :
               /\ tree' = a
               /\ IF ~a.ok
                  THEN /\ exitStatus' = 134
                       /\ UNCHANGED <<treeB, diff, dest, cerr, os>>
                  ELSE \E b \in DirectoryTree(cmd.targetIs, diskB, DescendingOrder, inputB) :
                          /\ treeB' = b
                          /\ IF ~b.ok
                             THEN /\ exitStatus' = 134
                                  /\ UNCHANGED <<diff, dest, cerr, os>>
                             ELSE /\ \E fa \in UnsupportedFlags(cmd.sourceIs, disk, a),
                                        fb \in UnsupportedFlags(cmd.targetIs, diskB, b) :
                                        cerr' = IF fa \/ fb THEN cerr \o UnsupportedMessage
                                                ELSE cerr
                                  /\ diff' = compare2(a, b)
                                  /\ dest' = getOutputFile
                                  /\ \E stack \in Stacks(PresentCount(diff'), ndebug) :
                                        os' = IF getOutputFile = "unopened" THEN <<>>
                                              ELSE diffWriteTo(diff', ndebug, stack)
                                  /\ exitStatus' = 0
       ELSE /\ dest' = "usage"
            /\ exitStatus' = 1
            /\ UNCHANGED <<tree, treeB, diff, cerr, os>>
    /\ pc' = "exited"
    /\ UNCHANGED <<cmd, fsFiles, disk, diskB, inputB, dirOrder, printBreak,
                   unsupported, input, inputName, codecVars, orderVars, flagBefore>>

\* main with the operation test: dump.txt read into a tree and the tree
\* written to cout; the assert on a missing file (unless compiled with
\* NDEBUG: then the stream that failed to open gives no line) and a
\* runtime_error that nothing catches end the process by abort (status 134)
Test ==
    /\ ndebug' = ndebug
    /\ pc = "main"
    /\ cmd.op = "test"
    /\ IF "dump" \notin fsFiles /\ ~ndebug
       THEN /\ exitStatus' = 134
            /\ UNCHANGED <<tree, os, dest, inputName>>
       ELSE /\ inputName' = DumpName
            /\ tree' = DirectoryTreeFromStream(input, DumpName)
            /\ IF tree'.ok
               THEN /\ \E ws \in Stacks(Len(tree'.nodes), ndebug) :
                          os' = treeWriteTo(tree', ndebug, ws)
                    /\ dest' = "cout"
                    /\ exitStatus' = 0
               ELSE /\ exitStatus' = 134
                    /\ UNCHANGED <<os, dest>>
    /\ pc' = "exited"
    /\ UNCHANGED <<cmd, fsFiles, cerr, disk, dirOrder, printBreak, unsupported,
                   input, codecVars, orderVars, diffVars, flagBefore>>

NextMain == Help \/ Ls \/ CompareTrees \/ Test

\* two directories compared from the command line
NextDiff == CompareTrees

SpecDiff == InitDiff /\ [][NextDiff]_vars

SpecMain == InitMain /\ [][NextMain]_vars

\* ls or compare was invoked with an output destination that exists
ExistingDestination == cmd.op \in {"ls", "compare"} /\ cmd.out /\ OutputExists

\* C11: ls or compare invoked with an output destination that already
\* exists is rejected as a usage error: the destination is never opened for
\* writing, no tree is built, and the process ends with a non-zero exit
\* status.
C11_ExistingOutputRejected ==
    (pc = "exited" /\ ExistingDestination) =>
        /\ dest # "outfile"
        /\ tree = NoTree /\ treeB = NoTree
        /\ cerr # <<>>
        /\ exitStatus # 0

\* with an existing destination nothing is opened, built or written and
\* the message is on cerr, but main returns 0
C11_ExistingOutputUntouchedExitZero ==
    (pc = "exited" /\ ExistingDestination) =>
        /\ dest = "none"
        /\ tree = NoTree /\ treeB = NoTree /\ diff = <<>> /\ os = <<>>
        /\ cerr = ExistsMessage
        /\ exitStatus = 0


-----------------------------------------------------------------------------
(* The blocks of a listing                                                 *)

\* the blocks of a list of lines: the lines between one blank line and the
\* next (a text with n blank lines has n + 1 blocks)
RECURSIVE BlocksOf(_, _, _)
BlocksOf(ls, k, cur) ==
    IF k > Len(ls) THEN <<cur>>
    ELSE IF ls[k] = <<>> THEN <<cur>> \o BlocksOf(ls, k + 1, <<>>)
    ELSE BlocksOf(ls, k + 1, Append(cur, ls[k]))

Blocks(text) == BlocksOf(Lines(text), 1, <<>>)

\* the directories of the disk in the order of the pre-order walk, the top
\* directory first
RECURSIVE DirectoriesOf(_)
DirectoriesOf(w) ==
    IF w = <<>> THEN <<>>
    ELSE (IF isDirectory(Head(w).elem) THEN <<Head(w).elem.rp>> ELSE <<>>)
         \o DirectoriesOf(Tail(w))

WalkedDirectories == << <<>> >> \o DirectoriesOf(PreOrder(scanDirectory(disk, dirOrder)))

\* the line of element e as some call of writeTo writes it, whatever its
\* struct tm held
IsLineOf(line, e) ==
    \E t0 \in StackTm : line = StripNewline(writeTo(e, ndebug, t0))

\* block b holds the lines of the sorted children of directory p, one
\* call of writeTo each
IsChildLines(b, p) ==
    LET l == SortedElements(disk, dirOrder, p)
    IN  /\ Len(b) = Len(l)
        /\ \A i \in 1..Len(l) : IsLineOf(b[i], l[i])

\* block i of the listing holds the sorted children of the i-th directory
\* walked, for every directory
BlockPerDirectory ==
    /\ Len(Blocks(os)) = Len(WalkedDirectories)
    /\ \A i \in 1..Len(WalkedDirectories) :
          IsChildLines(Blocks(os)[i], WalkedDirectories[i])

\* C12: the listing has one block per directory walked, in pre-order,
\* delimited by single blank lines: the i-th block holds exactly the sorted
\* children of the i-th directory (also when directories have no
\* children), and no blank line comes before the first non-empty block.
C12_BlockPerDirectory ==
    (pc = "listed") =>
        /\ BlockPerDirectory
        /\ (os # <<>>) => os[1] # NL

\* a directory without entries is walked before some other directory
EmptyBeforeLast ==
    \E i \in 2..(Len(WalkedDirectories) - 1) :
        ChildrenOf(disk, WalkedDirectories[i]) = {}

\* the blocks match the directories exactly when no directory without
\* entries is walked before another directory
C12_BlockPerDirectoryUnlessEmptyBeforeLast ==
    (pc = "listed") =>
        /\ BlockPerDirectory <=> ~EmptyBeforeLast
        /\ (os # <<>>) => os[1] # NL


-----------------------------------------------------------------------------
(* One FileLister used for several listings                                *)

\* what the listed directories hold: a regular file, a regular file and a
\* symlink with two hard links, a FIFO, and directories (two links, as a
\* directory has)
BuildLeafStats ==
    { PlainStat("regular"), [PlainStat("regular") EXCEPT !.nlink = 2],
      [PlainStat("symlink") EXCEPT !.nlink = 2], PlainStat("fifo") }
BuildDirStats == { [PlainStat("directory") EXCEPT !.nlink = 2] }

\* a directory of three entries: the directory "a", the regular file "b"
\* and the FIFO "c"
WideDisk ==
    { [path |-> <<97>>, st |-> [PlainStat("directory") EXCEPT !.nlink = 2]],
      [path |-> <<98>>, st |-> PlainStat("regular")],
      [path |-> <<99>>, st |-> PlainStat("fifo")] }

BuildDisks ==
    Forests(<<>>, FileNames, MaxArgNodes, BuildLeafStats, BuildDirStats)
    \cup {WideDisk}

\* the orders directory_iterator may take: every permutation of up to three
\* entries
Orders == { <<0, a, b>> : a \in 0..1, b \in 0..2 }

\* the orders that iterate the directories of d differently: the third
\* place of an order is looked at only where a directory has three entries
OrdersOf(d) == IF d = WideDisk THEN Orders ELSE { o \in Orders : o[3] = 0 }

\* a FileLister constructed: the declaration of the class is not in the
\* source, so its two flags start with any value
InitBuilds ==
    /\ ndebug \in BOOLEAN
    /\ pc = "constructed"
    /\ disk = {}
    /\ dirOrder = AscendingOrder
    /\ os = <<>>
    /\ printBreak \in BOOLEAN
    /\ unsupported \in BOOLEAN
    /\ flagBefore = FALSE
    /\ input = <<>>
    /\ inputName = <<>>
    /\ tree = NoTree
    /\ diskB = {}
    /\ inputB = <<>>
    /\ treeB = NoTree
    /\ diff = <<>>
    /\ cmd = NoCommand
    /\ fsFiles = {}
    /\ dest = "none"
    /\ cerr = <<>>
    /\ exitStatus = 0 - 1
    /\ elem = DefaultElement
    /\ decoded = [ok |-> FALSE, elem |-> DefaultElement, what |-> <<>>]
    /\ fe = <<>>
    /\ sortedFe = <<>>

\* the directory listed next: what it holds and the order in which
\* directory_iterator will give its entries; os and cerr are looked at
\* afresh for the call to come
ChooseTop ==
    /\ pc # "chosen"
    /\ ndebug' = ndebug
    /\ disk' \in BuildDisks
    /\ dirOrder' \in OrdersOf(disk')
    /\ os' = <<>>
    /\ cerr' = <<>>
    /\ pc' = "chosen"
    /\ UNCHANGED <<printBreak, unsupported, flagBefore, input, inputName, tree,
                   codecVars, orderVars, diffVars, cmd, fsFiles, dest, exitStatus>>

\* FileLister::listFiles(top) on the same object, top the directory
\* chosen: os and cerr hold what this call wrote to the two streams
Build ==
    /\ pc = "chosen"
    /\ ndebug' = ndebug
    /\ \E stack \in Stacks(Cardinality(disk), ndebug) :
          LET L == listFiles([os |-> <<>>, cerr |-> <<>>, printBreak |-> printBreak,
                              unsupported |-> unsupported, stack |-> stack],
                             disk, dirOrder, ndebug)
          IN  /\ os' = L.os
              /\ cerr' = L.cerr
              /\ printBreak' = L.printBreak
              /\ unsupported' = L.unsupported
    /\ flagBefore' = unsupported
    /\ pc' = "built"
    /\ UNCHANGED <<disk, dirOrder, input, inputName, tree, codecVars, orderVars,
                   diffVars, cmd, fsFiles, dest, exitStatus>>

\* FileLister::listFiles(top), top not a directory: logic_error is thrown
\* before anything is changed or written
BuildRejected ==
    /\ pc # "chosen"
    /\ ndebug' = ndebug
    /\ pc' = "rejected"
    /\ flagBefore' = unsupported
    /\ os' = <<>>
    /\ cerr' = <<>>
    /\ UNCHANGED <<disk, dirOrder, printBreak, unsupported, input, inputName, tree,
                   codecVars, orderVars, diffVars, cmd, fsFiles, dest, exitStatus>>

NextBuilds == ChooseTop \/ Build \/ BuildRejected

SpecBuilds == InitBuilds /\ [][NextBuilds]_vars

\* an entry the flag is for: of a kind other than regular file, directory
\* and symlink, or not a directory and with a hard-link count other than 1
Flagged(e) ==
    \/ e.st.ty \notin {"regular", "directory", "symlink"}
    \/ (e.st.ty # "directory" /\ e.st.nlink # 1)

\* the record lines of a text
RecordLines(text) ==
    LET ls == Lines(text)
    IN  { k \in 1..Len(ls) : ls[k] # <<>> }

\* the line of a record up to its time, and from the zone after its time
LineHead(e) ==
    <<TypeChar(e.ty)>> \o PermChars(e.per)
    \o <<SP>> \o e.us \o <<SP>> \o e.gs \o <<SP>>

LineTail(e) ==
    <<SP, 43, 48, 48, 48, 48, SP>>
    \o (CASE e.ty = "regular" -> Dec(e.sz) \o <<SP>> \o e.fileHash \o <<SP>>
          [] e.ty = "symlink" -> Quoted(e.symlink) \o <<SP>>
          [] OTHER -> <<>>)
    \o Quoted(e.rp)

\* line is the line of record e: all its fields but the time in either
\* build, whatever stands between them, and the time of e as well in a
\* build that keeps the assert of writeTo
IsRecordOf(line, e) ==
    /\ Len(line) >= Len(LineHead(e)) + Len(LineTail(e))
    /\ StartsWith(line, LineHead(e))
    /\ EndsWith(line, LineTail(e))
    /\ ~ndebug => line = StripNewline(writeTo(e, FALSE, AnyStack(1)[1]))

\* C13: after any sequence of builds on one object the flag is true
\* exactly when the most recent build met, anywhere in the tree it walked,
\* an entry of unknown kind or a non-directory with a hard-link count other
\* than 1, whatever the flag was before; and such an entry neither stops
\* the walk nor is left out: every entry of the tree has its line in the
\* output (the line with all fields of the entry but the time, which an
\* NDEBUG build does not write; with the time as well in a build that
\* keeps the assert).
C13_FlagOfMostRecentBuild ==
    (pc = "built") =>
        /\ unsupported <=> (\E e \in disk : Flagged(e))
        /\ Cardinality(RecordLines(os)) = Cardinality(disk)
        /\ \A e \in disk : \E k \in RecordLines(os) :
              IsRecordOf(Lines(os)[k], ElementFromDisk(e))

\* a build that met nothing to flag, after a build that set the flag
C13_Witness ==
    /\ pc = "built"
    /\ flagBefore
    /\ ~unsupported
    /\ Cardinality(disk) >= 2

\* a build that met an entry to flag and wrote another entry after it
FlaggedEntryWalkedOn ==
    /\ pc = "built"
    /\ unsupported
    /\ ~flagBefore
    /\ \E e, x \in disk : \E k, m \in RecordLines(os) :
          /\ Flagged(e) /\ k < m
          /\ IsLineOf(Lines(os)[k], ElementFromDisk(e))
          /\ IsLineOf(Lines(os)[m], ElementFromDisk(x))

\* every entry the flag is for has its warning on cerr, and cerr holds
\* nothing when the flag is not set
WarningsWithFlag ==
    (pc = "built") =>
        /\ (cerr = <<>>) <=> ~unsupported
        /\ \A e \in disk : Flagged(e) =>
              \E i \in 1..Len(cerr) :
                  LET w == WarningPrefix \o Quoted(e.path)
                  IN  i + Len(w) - 1 <= Len(cerr) /\ SubSeq(cerr, i, i + Len(w) - 1) = w

\* a directory of three entries that directory_iterator gave neither by
\* ascending nor by descending name
ThreeEntriesPermuted ==
    /\ pc = "built"
    /\ disk = WideDisk
    /\ dirOrder = <<0, 0, 1>>

====
